---- MODULE Spec2Model ----
(***************************************************************************)
(* The hardware command actor of logbot (crates/server/src/hardware.rs)    *)
(* together with the callers that talk to it through the bounded mailbox   *)
(* and the per-request oneshot reply channels.                             *)
(*                                                                         *)
(* The actor thread is modelled statement by statement: `pc` is the place  *)
(* of the thread inside handle_commands, every capability call (spin,      *)
(* drive, stop, sensor read, lift) is a step of its own that may fail, and *)
(* every mailbox poll is a step of its own.                                *)
(***************************************************************************)
EXTENDS Integers, Sequences, FiniteSets, TLC

(***************************************************************************)
(* Bounds of the model.                                                    *)
(***************************************************************************)
\* number of callers (HTTP requests) that can be in flight at the same time
MaxCallers == 2
\* longest sensor log a calibration sweep records before the sweep ends
MaxLog == 1
\* largest dwell (in seconds) an oscillation is followed to
MaxDwell == 4

(***************************************************************************)
(* Program constants.                                                      *)
(***************************************************************************)
\* mpsc::channel(10)
MailboxCapacity == 10
\* Oscillate::new(Duration::from_millis(1000), ..) of Calibrate, in seconds
CalibrateDwell == 1
\* Oscillate::new(Duration::from_secs(2), ..) of FindEdge, in seconds
FindEdgeDwell == 2
\* NonZero::<u32>::new(2) of both oscillations
Multiplier == 2
\* kmeans(self.data.as_slice(), 2, 100)
KMeansK == 2
KMeansIters == 100
\* (value - calibration.line as f64).abs() < 2.0
EdgeTolerance == 2

\* raw reflectance readings the sensors may return (u8)
Readings == {20, 200}

\* Option::None of a struct
None == [none |-> TRUE]

\* no command, no reply
Nothing == "-"

Commands == {"Health", "FollowLine", "Calibrate", "FindEdge", "Stop", "Demo"}

\* the long-running operations that poll the mailbox
Operations == {"FollowLine", "Calibrate", "FindEdge"}

VARIABLES
    mailbox,           \* mpsc channel: sequence of [cmd, chan]
    callers,           \* per request slot: the command whose reply is awaited (oneshot receiver)
    reply,             \* the reply the latest step sent, if it sent one, and whether it arrived
    pc,                \* position of the actor thread in handle_commands
    left_calibration,  \* Option<SensorCalibration>
    on_line,           \* bool
    motors,            \* Vehicle.state: "stop" for None, else the direction last driven
    oscillate,         \* Option<ActiveOscillation>: [duration, direction, elapsed]
    left_sensor,       \* SingleSensorCalibration.data of the left sensor
    right_sensor,      \* SingleSensorCalibration.data of the right sensor
    edge_value,        \* `value` of the edge search: the reading not yet tested, if any
    read,              \* the sensor the thread's latest step read, if that step was one sensors.read call
    lift,              \* the lift motor's pins: direction, power (PWM) and the limit switch last read
    state,             \* `state` of the keyboard program: the drive keys held down;
                       \* `state` of the line follower: its FollowLineState
    acceleration,      \* Option<LinearAcceleration>: [duration, last], last the ms since the ramp began
    error,             \* the error handle_commands returned with (spawn_default prints it)
    op_called          \* whether a capability call was made since the last top-level dequeue

vars == <<mailbox, callers, reply, pc, left_calibration, on_line, motors,
          oscillate, left_sensor, right_sensor, edge_value, read, lift, state, acceleration,
          error, op_called>>

CallerIds == 1..MaxCallers

\* LiftMotor after try_default: the power pin low (no PWM), no limit switch read yet
LiftAtRest == [power |-> "clear", limit |-> FALSE]

\* the places inside a Lift.up or Lift.down call of the demo script
DemoLiftPcs == {"demo_lift_up", "demo_lift_up_wait", "demo_lift_up_clear",
                "demo_lift_down", "demo_lift_down_wait", "demo_lift_down_clear"}

\* the latest step of the actor sent no reply
NoReply == [chan |-> 0, cmd |-> Nothing, value |-> Nothing, delivered |-> FALSE]

(***************************************************************************)
(* crates/calibration: k-means calibration of one sensor log.              *)
(* The f64 values are sums and means of small integers; they are kept as   *)
(* exact fractions [n, d] with d > 0.                                      *)
(***************************************************************************)
Frac(n, d) == [n |-> n, d |-> d]

Abs(x) == IF x < 0 THEN -x ELSE x

\* a < b for two fractions
FracLess(a, b) == a.n * b.d < b.n * a.d

\* (value - centroid).abs()
Dist(value, centroid) == Frac(Abs(value * centroid.d - centroid.n), centroid.d)

\* variant: the f64 is rounded to the nearest u8
AsU8Rounded(x) ==
    LET t == (2 * x.n + x.d) \div (2 * x.d) IN IF t > 255 THEN 255 ELSE IF t < 0 THEN 0 ELSE t

\* `x as u8` for a non-negative f64: truncation, saturating at 255
AsU8(x) == LET t == x.n \div x.d IN IF t > 255 THEN 255 ELSE IF t < 0 THEN 0 ELSE t

\* the indices of the values assigned to `cluster`
Members(assignments, cluster) ==
    {i \in 1..Len(assignments) : assignments[i] = cluster}

RECURSIVE SumAt(_, _)
SumAt(values, indices) ==
    IF indices = {} THEN 0
    ELSE LET i == CHOOSE j \in indices : TRUE
         IN values[i] + SumAt(values, indices \ {i})

\* cluster_values.iter().sum() / cluster_values.len() of a non-empty cluster
Mean(values, indices) == Frac(SumAt(values, indices), Cardinality(indices))

\* values.choose_multiple(&mut rng, k): every outcome the random source can give
choose_multiple(values, k) ==
    LET m == IF Len(values) < k THEN Len(values) ELSE k
        picks == {f \in [1..m -> 1..Len(values)] :
                     \A i, j \in 1..m : i # j => f[i] # f[j]}
    IN {[i \in 1..m |-> Frac(values[f[i]], 1)] : f \in picks}

\* step 2 of kmeans: the index (from 0) of the first nearest centroid
best_centroid(value, centroids) ==
    IF Len(centroids) = 0 THEN 0
    ELSE CHOOSE j \in 0..(Len(centroids) - 1) :
            /\ \A i \in 0..(Len(centroids) - 1) :
                  ~FracLess(Dist(value, centroids[i + 1]), Dist(value, centroids[j + 1]))
            /\ \A i \in 0..(j - 1) :
                  FracLess(Dist(value, centroids[j + 1]), Dist(value, centroids[i + 1]))

assign(values, centroids) ==
    [i \in 1..Len(values) |-> best_centroid(values[i], centroids)]

\* step 3 of kmeans: a centroid with an empty cluster keeps its value
update(values, assignments, centroids) ==
    [i \in 1..Len(centroids) |->
        IF Members(assignments, i - 1) = {} THEN centroids[i]
        ELSE Mean(values, Members(assignments, i - 1))]

\* one pass of the `for _ in 0..max_iters` loop: the new assignments and centroids
lloyd_pass(values, centroids) ==
    CHOOSE p \in {<<a, update(values, a, centroids)>> : a \in {assign(values, centroids)}} : TRUE

RECURSIVE lloyd(_, _, _, _)
lloyd(values, centroids, assignments, iters) ==
    IF iters = 0 THEN assignments
    ELSE CHOOSE result \in
            {\* once the centroids no longer move, every further pass repeats
             \* this one: the remaining passes are skipped
             IF p[2] = centroids THEN p[1] ELSE lloyd(values, p[2], p[1], iters - 1) :
                p \in {lloyd_pass(values, centroids)}} : TRUE

\* variant: the loop is left after its first pass
kmeansOnePass(values, centroids, max_iters) ==
    lloyd(values, centroids, [i \in 1..Len(values) |-> 0], 1)

\* kmeans(values, k, max_iters) for the initial centroids the random source gave
kmeans(values, centroids, max_iters) ==
    lloyd(values, centroids, [i \in 1..Len(values) |-> 0], max_iters)

average_cluster_sizes(values, assignments, k) ==
    [c \in 1..k |->
        IF Members(assignments, c - 1) = {} THEN Frac(0, 1)
        ELSE Mean(values, Members(assignments, c - 1))]

FracMin(avgs) == CHOOSE a \in {avgs[i] : i \in 1..Len(avgs)} :
                    \A i \in 1..Len(avgs) : ~FracLess(avgs[i], a)
FracMax(avgs) == CHOOSE a \in {avgs[i] : i \in 1..Len(avgs)} :
                    \A i \in 1..Len(avgs) : ~FracLess(a, avgs[i])

SensorCalibration(line, floor) == [line |-> line, floor |-> floor]

\* SingleSensorCalibration::calibrate for the initial centroids the random source gave
calibrate(data, centroids) ==
    CHOOSE calibration \in
        {SensorCalibration(AsU8(FracMax(averages)), AsU8(FracMin(averages))) :
            averages \in {average_cluster_sizes(data, assignments, KMeansK) :
                assignments \in {kmeans(data, centroids, KMeansIters)}}} : TRUE

\* SensorCalibration::average
average(calibration) == Frac(calibration.line + calibration.floor, 2)

\* every calibration the log can give
Calibrations(data) == {calibrate(data, c) : c \in choose_multiple(data, KMeansK)}

(***************************************************************************)
(* crates/oscillate: the oscillation timer.  `elapsed` is                  *)
(* since_last.elapsed(), in the unit of the dwell.                         *)
(***************************************************************************)
Not(direction) == IF direction = "Left" THEN "Right" ELSE "Left"

\* Oscillate::start, after its spin call has succeeded
ActiveOscillation(duration, direction) ==
    [duration |-> duration, direction |-> direction, elapsed |-> 0]

\* self.next_oscillation().is_zero(): duration.saturating_sub(elapsed) = 0
should_step(o) == o.elapsed >= o.duration

\* the test of ActiveOscillation::step
step_due(o) == o.elapsed > o.duration

\* variant: a switching step that leaves the timer running
switchedKeepsTimer(o) ==
    [duration |-> o.duration * Multiplier, direction |-> Not(o.direction), elapsed |-> o.elapsed]

\* the oscillation after a switching step
switched(o) ==
    [duration |-> o.duration * Multiplier, direction |-> Not(o.direction), elapsed |-> 0]

SpinCommand(direction) == IF direction = "Left" THEN "spin_left" ELSE "spin_right"

\* ActiveOscillation::step with a spin call that succeeds: the oscillation it
\* leaves, the spin command it gives (None when it gives none), and its result
step(o) ==
    IF step_due(o)
    THEN [oscillation |-> switched(o), spin |-> [direction |-> Not(o.direction)], result |-> TRUE]
    ELSE [oscillation |-> o, spin |-> None, result |-> FALSE]

\* variant: the calibration is looked at before on_line
FollowLineCalibrationFirst(online, calibration) ==
    IF calibration = None THEN "NoCalibration"
    ELSE IF ~online THEN "NotOnTheLine"
    ELSE "Success"

\* variant: on_line is not looked at
FollowLineOffLine(online, calibration) ==
    IF calibration = None THEN "NoCalibration" ELSE "Success"

(***************************************************************************)
(* crates/server/src/hardware.rs: the answers of the arbitration.          *)
(***************************************************************************)
\* Command::FollowLine at top level
FollowLineArbitration(online, calibration) ==
    IF ~online THEN "NotOnTheLine"
    ELSE IF calibration = None THEN "NoCalibration"
    ELSE "Success"

\* variant: the edge search starts whether or not a calibration is cached
FindEdgeUnguarded(calibration) == "Success"

\* Command::FindEdge at top level
FindEdgeArbitration(calibration) ==
    IF calibration = None THEN "NoCalibration" ELSE "Success"

\* variant: every loop answers with the Already.. result of the command itself
BusyReplyAlready(op, cmd) ==
    CASE cmd = "FollowLine" -> "AlreadyFollowing"
      [] cmd = "Calibrate"  -> "AlreadyCalibrating"
      [] cmd = "FindEdge"   -> "AlreadyEdging"

\* the answer to FollowLine, Calibrate or FindEdge polled while `op` is running
BusyReply(op, cmd) ==
    CASE op = "FollowLine" /\ cmd = "FollowLine" -> "AlreadyFollowing"
      [] op = "FollowLine" /\ cmd = "Calibrate"  -> "Following"
      [] op = "FollowLine" /\ cmd = "FindEdge"   -> "Follow"
      [] op = "Calibrate"  /\ cmd = "FollowLine" -> "MidCalibration"
      [] op = "Calibrate"  /\ cmd = "Calibrate"  -> "AlreadyCalibrating"
      [] op = "Calibrate"  /\ cmd = "FindEdge"   -> "Calibrate"
      [] op = "FindEdge"   /\ cmd = "FollowLine" -> "FindingEdge"
      [] op = "FindEdge"   /\ cmd = "Calibrate"  -> "FindingEdge"
      [] op = "FindEdge"   /\ cmd = "FindEdge"   -> "AlreadyEdging"

\* variant: Stop does not tell what it cancelled
StopResultNothing(op) == "Nothing"

\* the answer to Stop: the operation that was running ("Nothing" when idle)
StopResult(op) == IF op \in Operations THEN op ELSE "Nothing"

\* variant: every reply goes to the channel of the first caller
ResponseOfFirst(msg) == 1

\* the reply channel that arrived with a message
ResponseOf(msg) == msg.chan

\* let _ = response.send(value): the awaiting route handler gets the value and
\* returns; when the handler was dropped in the meantime (the client went
\* away) the receiver is gone, send returns Err and the result is discarded
Reply(msg, value) ==
    /\ callers' = IF ResponseOf(msg) \in CallerIds /\ callers[ResponseOf(msg)] = msg.cmd
                  THEN [callers EXCEPT ![ResponseOf(msg)] = Nothing]
                  ELSE callers
    /\ \E delivered \in BOOLEAN :
          reply' = [chan |-> ResponseOf(msg), cmd |-> msg.cmd, value |-> value,
                    delivered |-> delivered]
    /\ read' = None
    /\ UNCHANGED error

\* a step of the actor that sends nothing
Silent ==
    /\ reply' = NoReply
    /\ read' = None
    /\ UNCHANGED callers

\* sensors.read(channel) returned a reading, and no reply was sent
Reads(channel) ==
    /\ reply' = NoReply
    /\ read' = [channel |-> channel]
    /\ UNCHANGED callers

\* the operation whose loop the actor is in
Running ==
    CASE pc \in {"follow_poll", "follow_read", "follow_drive"} -> "FollowLine"
      [] pc \in {"cal_start", "cal_wait", "cal_wait_poll", "cal_step", "cal_log",
                 "cal_log_poll", "cal_read_left", "cal_read_right", "cal_stop"} -> "Calibrate"
      [] pc \in {"edge_start", "edge_check", "edge_poll", "edge_read", "edge_test",
                 "edge_step", "edge_stop"} -> "FindEdge"
      [] pc \in {"demo_calibrate", "demo_find_edge", "demo_follow", "demo_lift_up",
                 "demo_turn", "demo_find_edge2", "demo_follow2", "demo_lift_down"}
                \cup DemoLiftPcs -> "Demo"
      [] OTHER -> "Nothing"

Init ==
    /\ mailbox = <<>>
    /\ callers = [c \in CallerIds |-> Nothing]
    /\ reply = NoReply
    /\ pc = "recv"
    /\ left_calibration = None
    /\ on_line = FALSE
    /\ motors = "stop"
    /\ oscillate = None
    /\ left_sensor = <<>>
    /\ right_sensor = <<>>
    /\ edge_value = None
    /\ lift = LiftAtRest
    /\ state = 0
    /\ acceleration = None
    /\ error = Nothing
    /\ op_called = FALSE
    /\ read = None

(***************************************************************************)
(* crates/server/src/routes/mod.rs: the HTTP answer made from a result.    *)
(***************************************************************************)
HardwareResponse(status, reason) == [status |-> status, reason |-> reason]

\* impl From<CalibrateResult> for HardwareResponse
FromCalibrateResult(value) ==
    CASE value = "Success"            -> HardwareResponse("OK", Nothing)
      [] value = "AlreadyCalibrating" -> HardwareResponse("FOUND", Nothing)
      [] value = "FindingEdge"        -> HardwareResponse("CONFLICT", "EDGE")
      [] value = "Following"          -> HardwareResponse("CONFLICT", "FOLLOWING")

\* impl From<StopResult> for HardwareResponse
FromStopResult(value) ==
    CASE value = "Nothing"    -> HardwareResponse("OK", Nothing)
      [] value = "Calibrate"  -> HardwareResponse("OK", "CALIBRATE")
      [] value = "FindEdge"   -> HardwareResponse("OK", "EDGE")
      [] value = "FollowLine" -> HardwareResponse("OK", "FOLLOW")

\* impl From<FollowLineResult> for HardwareResponse
FromFollowLineResult(value) ==
    CASE value = "Success"          -> HardwareResponse("OK", Nothing)
      [] value = "AlreadyFollowing" -> HardwareResponse("FOUND", Nothing)
      [] value = "NotOnTheLine"     -> HardwareResponse("METHOD_NOT_ALLOWED", "NOTONLINE")
      [] value = "FindingEdge"      -> HardwareResponse("CONFLICT", "EDGE")
      [] value = "MidCalibration"   -> HardwareResponse("CONFLICT", "CALIBRATE")
      [] value = "NoCalibration"    -> HardwareResponse("METHOD_NOT_ALLOWED", "NOCALIBRATION")

\* impl From<FindEdgeResult> for HardwareResponse
FromFindEdgeResult(value) ==
    CASE value = "Success"       -> HardwareResponse("OK", Nothing)
      [] value = "AlreadyEdging" -> HardwareResponse("FOUND", Nothing)
      [] value = "NoCalibration" -> HardwareResponse("METHOD_NOT_ALLOWED", "NOCALIBRATIONO")
      [] value = "Follow"        -> HardwareResponse("CONFLICT", "FOLLOW")
      [] value = "Calibrate"     -> HardwareResponse("CONFLICT", "CALIBRATE")

\* impl From<DemoResult> for HardwareResponse
FromDemoResult(value) ==
    CASE value = "Success" -> HardwareResponse("OK", Nothing)

\* the answer the route of `cmd` makes from the result it received
ResponseFrom(cmd, value) ==
    CASE cmd = "Calibrate"  -> FromCalibrateResult(value)
      [] cmd = "Stop"       -> FromStopResult(value)
      [] cmd = "FollowLine" -> FromFollowLineResult(value)
      [] cmd = "FindEdge"   -> FromFindEdgeResult(value)
      [] cmd = "Demo"       -> FromDemoResult(value)


\* variant: the channel takes a message whether or not it has room
RequestUnbounded(c, cmd) ==
    /\ callers[c] = Nothing
    /\ pc # "dead"
    /\ mailbox' = Append(mailbox, [cmd |-> cmd, chan |-> c])
    /\ callers' = [callers EXCEPT ![c] = cmd]
    /\ reply' = NoReply
    /\ UNCHANGED read
    /\ UNCHANGED <<pc, left_calibration, on_line, motors, oscillate,
                   left_sensor, right_sensor, edge_value, lift, state, acceleration, error, op_called>>

(***************************************************************************)
(* The callers (crates/server/src/routes).                                 *)
(***************************************************************************)
\* state.hardware.send(Command::X(wx)).await on a live actor
Request(c, cmd) ==
    /\ callers[c] = Nothing
    /\ pc # "dead"
    /\ Len(mailbox) < MailboxCapacity
    /\ mailbox' = Append(mailbox, [cmd |-> cmd, chan |-> c])
    /\ callers' = [callers EXCEPT ![c] = cmd]
    /\ reply' = NoReply
    /\ UNCHANGED read
    /\ UNCHANGED <<pc, left_calibration, on_line, motors, oscillate,
                   left_sensor, right_sensor, edge_value, lift, state, acceleration, error, op_called>>

\* send on a mailbox whose receiver is gone: SendError, the route answers with 500
RequestRefused(c, cmd) ==
    /\ callers[c] = Nothing
    /\ pc = "dead"
    /\ UNCHANGED vars

\* rx.await fails once the actor is gone (the reply sender was dropped unanswered):
\* the route answers with 500
ReplyLost(c) ==
    /\ callers[c] # Nothing
    /\ pc = "dead"
    /\ callers' = [callers EXCEPT ![c] = Nothing]
    /\ reply' = NoReply
    /\ UNCHANGED read
    /\ UNCHANGED <<mailbox, pc, left_calibration, on_line, motors, oscillate,
                   left_sensor, right_sensor, edge_value, lift, state, acceleration, error, op_called>>

\* the places where the thread reads the clock of the oscillation
ClockReads == {"cal_wait", "cal_step", "cal_log", "edge_check", "edge_step", "osc_active",
               "demo_cal_wait", "demo_cal_step", "demo_cal_log"}

\* wall-clock time passes for the active oscillation; time that passes elsewhere
\* is seen by the thread at its next read of the clock
Tick ==
    /\ oscillate # None
    /\ pc \in ClockReads
    /\ oscillate.elapsed <= oscillate.duration
    /\ oscillate' = [oscillate EXCEPT !.elapsed = @ + 1]
    /\ reply' = NoReply
    /\ UNCHANGED read
    /\ UNCHANGED <<mailbox, callers, pc, left_calibration, on_line, motors,
                   left_sensor, right_sensor, edge_value, lift, state, acceleration, error, op_called>>

(***************************************************************************)
(* The actor thread: handle_commands.                                      *)
(***************************************************************************)
\* the locals of an operation are dropped when it is left
DropLocals ==
    /\ oscillate' = None
    /\ left_sensor' = <<>>
    /\ right_sensor' = <<>>
    /\ edge_value' = None
    /\ UNCHANGED <<lift, state, acceleration>>

\* variant: the error is recorded and the thread goes on at the same place
DieAndGoOn(kind) ==
    /\ error' = kind
    /\ reply' = [chan |-> 0, cmd |-> Nothing, value |-> Nothing, delivered |-> FALSE]
    /\ read' = None
    /\ UNCHANGED <<pc, mailbox, callers, oscillate, left_sensor, right_sensor, edge_value, lift, state, acceleration,
                   left_calibration, on_line>>

\* a capability call returned Err: `?` leaves handle_commands and the thread ends;
\* its locals and the receiver, with the messages still queued, are dropped
Die(kind) ==
    /\ pc' = "dead"
    /\ error' = kind
    /\ mailbox' = <<>>
    /\ DropLocals
    /\ left_calibration' = None
    /\ on_line' = FALSE
    /\ Silent

\* variant: a Health taken inside an operation ends the operation
try_recvHealthEnds(op, cont, ok) ==
    IF mailbox = <<>>
    THEN /\ pc' = cont
         /\ Silent /\ UNCHANGED <<error, mailbox, left_calibration, on_line, motors,
                        oscillate, left_sensor, right_sensor, edge_value, lift, state, acceleration, error, op_called>>
    ELSE LET msg == Head(mailbox) IN
            CASE msg.cmd = "Health" ->
                   /\ mailbox' = Tail(mailbox)
                   /\ Reply(msg, "Unit")
                   /\ pc' = "recv"
                   /\ motors' = "stop"
                   /\ DropLocals
                   /\ UNCHANGED <<left_calibration, on_line, error, op_called>>
              [] msg.cmd \in Operations ->
                   /\ mailbox' = Tail(mailbox)
                   /\ Reply(msg, BusyReply(op, msg.cmd))
                   /\ pc' = cont
                   /\ UNCHANGED <<left_calibration, on_line, motors, oscillate,
                                  left_sensor, right_sensor, edge_value, lift, state, acceleration, error, op_called>>
              [] msg.cmd = "Demo" ->
                   /\ mailbox' = Tail(mailbox)
                   /\ Reply(msg, "Success")
                   /\ pc' = "demo_calibrate"
                   /\ op_called' = FALSE
                   /\ DropLocals
                   /\ UNCHANGED <<left_calibration, on_line, motors>>
              [] OTHER ->
                   IF ok
                   THEN /\ mailbox' = Tail(mailbox)
                        /\ motors' = "stop"
                        /\ Reply(msg, StopResult(op))
                        /\ pc' = "recv"
                        /\ op_called' = TRUE
                        /\ DropLocals
                        /\ UNCHANGED <<left_calibration, on_line>>
                   ELSE /\ motors' = "unknown"
                        /\ op_called' = TRUE
                        /\ Die("vehicle")

\* channel.try_recv() and the match on its result, inside the loop of `op`;
\* `cont` is the place the loop goes on from, `ok` whether vehicle.stop() succeeds
try_recv(op, cont, ok) ==
    IF mailbox = <<>>
    THEN /\ pc' = cont
         /\ Silent /\ UNCHANGED <<error, mailbox, left_calibration, on_line, motors,
                        oscillate, left_sensor, right_sensor, edge_value, lift, state, acceleration, error, op_called>>
    ELSE LET msg == Head(mailbox) IN
            CASE msg.cmd = "Health" ->
                   /\ mailbox' = Tail(mailbox)
                   /\ Reply(msg, "Unit")
                   /\ pc' = cont
                   /\ UNCHANGED <<left_calibration, on_line, motors, oscillate,
                                  left_sensor, right_sensor, edge_value, lift, state, acceleration, error, op_called>>
              [] msg.cmd \in Operations ->
                   /\ mailbox' = Tail(mailbox)
                   /\ Reply(msg, BusyReply(op, msg.cmd))
                   /\ pc' = cont
                   /\ UNCHANGED <<left_calibration, on_line, motors, oscillate,
                                  left_sensor, right_sensor, edge_value, lift, state, acceleration, error, op_called>>
              [] msg.cmd = "Demo" ->
                   /\ mailbox' = Tail(mailbox)
                   /\ Reply(msg, "Success")
                   /\ pc' = "demo_calibrate"
                   /\ op_called' = FALSE
                   /\ DropLocals
                   /\ UNCHANGED <<left_calibration, on_line, motors>>
              [] OTHER ->
                   IF ok
                   THEN /\ mailbox' = Tail(mailbox)
                        /\ motors' = "stop"
                        /\ Reply(msg, StopResult(op))
                        /\ pc' = "recv"
                        /\ op_called' = TRUE
                        /\ DropLocals
                        /\ UNCHANGED <<left_calibration, on_line>>
                   ELSE /\ motors' = "unknown"
                        /\ op_called' = TRUE
                        /\ Die("vehicle")

\* 'outer: Command::Health
RecvHealth ==
    /\ pc = "recv" /\ mailbox # <<>> /\ Head(mailbox).cmd = "Health"
    /\ mailbox' = Tail(mailbox)
    /\ Reply(Head(mailbox), "Unit")
    /\ op_called' = FALSE
    /\ UNCHANGED <<pc, left_calibration, on_line, motors, oscillate,
                   left_sensor, right_sensor, edge_value, lift, state, acceleration>>

\* variant: taking a Demo forgets the cached calibration
RecvDemoForgets ==
    /\ pc = "recv" /\ mailbox # <<>> /\ Head(mailbox).cmd = "Demo"
    /\ mailbox' = Tail(mailbox)
    /\ Reply(Head(mailbox), "Success")
    /\ pc' = "demo_calibrate"
    /\ op_called' = FALSE
    /\ left_calibration' = None
    /\ UNCHANGED <<on_line, motors, oscillate,
                   left_sensor, right_sensor, edge_value, lift, state, acceleration>>

\* 'outer: Command::Demo, up to the call of demo()
RecvDemo ==
    /\ pc = "recv" /\ mailbox # <<>> /\ Head(mailbox).cmd = "Demo"
    /\ mailbox' = Tail(mailbox)
    /\ Reply(Head(mailbox), "Success")
    /\ pc' = "demo_calibrate"
    /\ op_called' = FALSE
    /\ UNCHANGED <<left_calibration, on_line, motors, oscillate,
                   left_sensor, right_sensor, edge_value, lift, state, acceleration>>

\* variant: FollowLine is answered and the thread stays at the top level
RecvFollowLineDeferred ==
    /\ pc = "recv" /\ mailbox # <<>> /\ Head(mailbox).cmd = "FollowLine"
    /\ mailbox' = Tail(mailbox)
    /\ Reply(Head(mailbox), FollowLineArbitration(on_line, left_calibration))
    /\ op_called' = FALSE
    /\ UNCHANGED <<pc, left_calibration, on_line, motors, oscillate,
                   left_sensor, right_sensor, edge_value, lift, state, acceleration>>

\* 'outer: Command::FollowLine, up to the start of the follow loop
RecvFollowLine ==
    /\ pc = "recv" /\ mailbox # <<>> /\ Head(mailbox).cmd = "FollowLine"
    /\ mailbox' = Tail(mailbox)
    /\ LET result == FollowLineArbitration(on_line, left_calibration) IN
         /\ Reply(Head(mailbox), result)
         /\ pc' = IF result = "Success" THEN "follow_poll" ELSE "recv"
    /\ op_called' = FALSE
    /\ UNCHANGED <<left_calibration, on_line, motors, oscillate,
                   left_sensor, right_sensor, edge_value, lift, state, acceleration>>

\* variant: the sweep is started only when the reply could be delivered
RecvCalibrateNeedsReceiver ==
    /\ pc = "recv" /\ mailbox # <<>> /\ Head(mailbox).cmd = "Calibrate"
    /\ mailbox' = Tail(mailbox)
    /\ callers' = [callers EXCEPT ![Head(mailbox).chan] = Nothing]
    /\ \E delivered \in BOOLEAN :
          /\ reply' = [chan |-> Head(mailbox).chan, cmd |-> "Calibrate",
                       value |-> "Success", delivered |-> delivered]
          /\ pc' = IF delivered THEN "cal_start" ELSE "recv"
          /\ on_line' = IF delivered THEN FALSE ELSE on_line
    /\ left_sensor' = <<>>
    /\ right_sensor' = <<>>
    /\ op_called' = FALSE
    /\ read' = None
    /\ UNCHANGED <<left_calibration, motors, oscillate, edge_value, lift, state, acceleration, error>>

\* variant: the sweep starts to spin before the reply is sent
RecvCalibrateSpinFirst ==
    /\ pc = "recv" /\ mailbox # <<>> /\ Head(mailbox).cmd = "Calibrate"
    /\ mailbox' = Tail(mailbox)
    /\ on_line' = FALSE
    /\ motors' = SpinCommand("Left")
    /\ oscillate' = ActiveOscillation(CalibrateDwell, "Left")
    /\ Reply(Head(mailbox), "Success")
    /\ left_sensor' = <<>>
    /\ right_sensor' = <<>>
    /\ UNCHANGED <<edge_value, lift, state, acceleration>>
    /\ pc' = "cal_wait"
    /\ op_called' = TRUE
    /\ UNCHANGED left_calibration

\* 'outer: Command::Calibrate, up to oscillate.start()
RecvCalibrate ==
    /\ pc = "recv" /\ mailbox # <<>> /\ Head(mailbox).cmd = "Calibrate"
    /\ mailbox' = Tail(mailbox)
    /\ on_line' = FALSE
    /\ Reply(Head(mailbox), "Success")
    /\ left_sensor' = <<>>
    /\ right_sensor' = <<>>
    /\ UNCHANGED <<edge_value, lift, state, acceleration>>
    /\ pc' = "cal_start"
    /\ op_called' = FALSE
    /\ UNCHANGED <<left_calibration, motors, oscillate>>

\* variant: a FindEdge taken at top level takes the vehicle off the line
RecvFindEdgeOffLine ==
    /\ pc = "recv" /\ mailbox # <<>> /\ Head(mailbox).cmd = "FindEdge"
    /\ mailbox' = Tail(mailbox)
    /\ LET result == FindEdgeArbitration(left_calibration) IN
         /\ Reply(Head(mailbox), result)
         /\ pc' = IF result = "Success" THEN "edge_start" ELSE "recv"
    /\ op_called' = FALSE
    /\ on_line' = FALSE
    /\ UNCHANGED <<left_calibration, motors, oscillate,
                   left_sensor, right_sensor, edge_value, lift, state, acceleration>>

\* 'outer: Command::FindEdge, up to Oscillate::start()
RecvFindEdge ==
    /\ pc = "recv" /\ mailbox # <<>> /\ Head(mailbox).cmd = "FindEdge"
    /\ mailbox' = Tail(mailbox)
    /\ LET result == FindEdgeArbitration(left_calibration) IN
         /\ Reply(Head(mailbox), result)
         /\ pc' = IF result = "Success" THEN "edge_start" ELSE "recv"
    /\ op_called' = FALSE
    /\ UNCHANGED <<left_calibration, on_line, motors, oscillate,
                   left_sensor, right_sensor, edge_value, lift, state, acceleration>>

\* 'outer: Command::Stop
RecvStop ==
    /\ pc = "recv" /\ mailbox # <<>> /\ Head(mailbox).cmd = "Stop"
    /\ op_called' = TRUE
    /\ \E ok \in BOOLEAN :
         IF ok
         THEN /\ mailbox' = Tail(mailbox)
              /\ motors' = "stop"
              /\ Reply(Head(mailbox), StopResult(Running))
              /\ UNCHANGED <<pc, left_calibration, on_line, oscillate,
                             left_sensor, right_sensor, edge_value, lift, state, acceleration>>
         ELSE /\ motors' = "unknown"
              /\ Die("vehicle")

\* variant: the follow loop does not look at the mailbox
FollowNoPoll ==
    /\ pc = "follow_poll"
    /\ pc' = "follow_read"
    /\ Silent /\ UNCHANGED <<error, mailbox, left_calibration, on_line, motors,
                   oscillate, left_sensor, right_sensor, edge_value, lift, state, acceleration, op_called>>

(***************************************************************************)
(* Command::FollowLine: the follow loop.                                   *)
(***************************************************************************)
\* channel.try_recv() at the head of the loop body
FollowPoll ==
    /\ pc = "follow_poll"
    /\ \E ok \in BOOLEAN : try_recv("FollowLine", "follow_read", ok)

\* hardware.sensors.read(Sensors::Left)?
FollowRead ==
    /\ pc = "follow_read"
    /\ op_called' = TRUE
    /\ \E ok \in BOOLEAN :
         IF ok
         THEN /\ pc' = "follow_drive"
              /\ Reads("Left") /\ UNCHANGED <<error, mailbox, left_calibration, on_line, motors,
                             oscillate, left_sensor, right_sensor, edge_value, lift, state, acceleration>>
         ELSE /\ Die("sensor")
              /\ UNCHANGED motors

\* state.step(..), direction.accelerate(..), hardware.vehicle.drive(direction)?
FollowDrive ==
    /\ pc = "follow_drive"
    /\ op_called' = TRUE
    /\ \E ok \in BOOLEAN :
         IF ok
         THEN /\ motors' = "drive"
              /\ pc' = "follow_poll"
              /\ Silent /\ UNCHANGED <<error, mailbox, left_calibration, on_line,
                             oscillate, left_sensor, right_sensor, edge_value, lift, state, acceleration>>
         ELSE /\ motors' = "unknown"
              /\ Die("vehicle")

(***************************************************************************)
(* Command::Calibrate: the sweep.                                          *)
(***************************************************************************)
\* oscillate.start(&mut hardware.vehicle)?
CalStart ==
    /\ pc = "cal_start"
    /\ op_called' = TRUE
    /\ \E ok \in BOOLEAN :
         IF ok
         THEN /\ motors' = SpinCommand("Left")
              /\ oscillate' = ActiveOscillation(CalibrateDwell, "Left")
              /\ pc' = "cal_wait"
              /\ Silent /\ UNCHANGED <<error, mailbox, left_calibration, on_line,
                             left_sensor, right_sensor, edge_value, lift, state, acceleration>>
         ELSE /\ motors' = "unknown"
              /\ Die("vehicle")

\* variant: the first loop goes on to the sensor reads of the second
CalWaitLogging ==
    /\ pc = "cal_wait"
    /\ pc' = IF should_step(oscillate) THEN "cal_step" ELSE "cal_log_poll"
    /\ Silent /\ UNCHANGED <<error, mailbox, left_calibration, on_line, motors,
                   oscillate, left_sensor, right_sensor, edge_value, lift, state, acceleration, error, op_called>>

\* while !oscillate.should_step(), first loop
CalWait ==
    /\ pc = "cal_wait"
    /\ pc' = IF should_step(oscillate) THEN "cal_step" ELSE "cal_wait_poll"
    /\ Silent /\ UNCHANGED <<error, mailbox, left_calibration, on_line, motors,
                   oscillate, left_sensor, right_sensor, edge_value, lift, state, acceleration, error, op_called>>

\* channel.try_recv() in the first loop
CalWaitPoll ==
    /\ pc = "cal_wait_poll"
    /\ \E ok \in BOOLEAN : try_recv("Calibrate", "cal_wait", ok)

\* oscillate.step(&mut hardware.vehicle)?
CalStep ==
    /\ pc = "cal_step"
    /\ IF step_due(oscillate)
       THEN /\ op_called' = TRUE
            /\ \E ok \in BOOLEAN :
                 IF ok
                 THEN /\ oscillate' = switched(oscillate)
                      /\ motors' = SpinCommand(Not(oscillate.direction))
                      /\ pc' = "cal_log"
                      /\ Silent /\ UNCHANGED <<error, mailbox, left_calibration, on_line,
                                     left_sensor, right_sensor, edge_value, lift, state, acceleration>>
                 ELSE /\ motors' = "unknown"
                      /\ Die("vehicle")
       ELSE /\ pc' = "cal_log"
            /\ Silent /\ UNCHANGED <<error, mailbox, left_calibration, on_line, motors,
                           oscillate, left_sensor, right_sensor, edge_value, lift, state, acceleration, error, op_called>>

\* while !oscillate.should_step(), second loop
CalLog ==
    /\ pc = "cal_log"
    /\ should_step(oscillate) \/ Len(left_sensor) < MaxLog
    /\ pc' = IF should_step(oscillate) THEN "cal_stop" ELSE "cal_log_poll"
    /\ Silent /\ UNCHANGED <<error, mailbox, left_calibration, on_line, motors,
                   oscillate, left_sensor, right_sensor, edge_value, lift, state, acceleration, error, op_called>>

\* channel.try_recv() in the second loop
CalLogPoll ==
    /\ pc = "cal_log_poll"
    /\ \E ok \in BOOLEAN : try_recv("Calibrate", "cal_read_left", ok)

\* let left_value = hardware.sensors.read(Sensors::Left)?
CalReadLeft ==
    /\ pc = "cal_read_left"
    /\ op_called' = TRUE
    /\ \E ok \in BOOLEAN :
         IF ok
         THEN /\ \E value \in Readings : left_sensor' = Append(left_sensor, value)
              /\ pc' = "cal_read_right"
              /\ Reads("Left") /\ UNCHANGED <<error, mailbox, left_calibration, on_line,
                             oscillate, right_sensor, edge_value, lift, state, acceleration>>
         ELSE Die("sensor")
    /\ UNCHANGED motors

\* let right_value = hardware.sensors.read(Sensors::Right)?, and the two log calls
CalReadRight ==
    /\ pc = "cal_read_right"
    /\ op_called' = TRUE
    /\ \E ok \in BOOLEAN :
         IF ok
         THEN /\ \E value \in Readings : right_sensor' = Append(right_sensor, value)
              /\ pc' = "cal_log"
              /\ Reads("Right") /\ UNCHANGED <<error, mailbox, left_calibration, on_line,
                             oscillate, left_sensor, edge_value, lift, state, acceleration>>
         ELSE Die("sensor")
    /\ UNCHANGED motors

\* variant: the sweep ends without storing what it computed
CalStopNoCache ==
    /\ pc = "cal_stop"
    /\ op_called' = TRUE
    /\ \E ok \in BOOLEAN :
         IF ok
         THEN /\ motors' = "stop"
              /\ pc' = "recv"
              /\ DropLocals
              /\ Silent /\ UNCHANGED <<error, mailbox, on_line, left_calibration>>
         ELSE /\ motors' = "unknown"
              /\ Die("vehicle")

\* hardware.vehicle.stop()?, then both calibrate() calls
CalStop ==
    /\ pc = "cal_stop"
    /\ op_called' = TRUE
    /\ \E ok \in BOOLEAN :
         IF ok
         THEN /\ motors' = "stop"
              /\ \E calibration \in Calibrations(left_sensor) :
                     left_calibration' = calibration
              /\ pc' = "recv"
              /\ DropLocals
              /\ Silent /\ UNCHANGED <<error, mailbox, on_line>>
         ELSE /\ motors' = "unknown"
              /\ Die("vehicle")

(***************************************************************************)
(* Command::FindEdge: the edge search.                                     *)
(***************************************************************************)
\* variant: the reading is compared with the floor of the calibration
EdgeFoundFloor(value, calibration) == Abs(value - calibration.floor) < EdgeTolerance

\* (value - calibration.line as f64).abs() < 2.0
EdgeFound(value, calibration) == Abs(value - calibration.line) < EdgeTolerance

\* Oscillate::new(..).start(&mut hardware.vehicle)?
EdgeStart ==
    /\ pc = "edge_start"
    /\ op_called' = TRUE
    /\ \E ok \in BOOLEAN :
         IF ok
         THEN /\ motors' = SpinCommand("Left")
              /\ oscillate' = ActiveOscillation(FindEdgeDwell, "Left")
              /\ pc' = "edge_check"
              /\ Silent /\ UNCHANGED <<error, mailbox, left_calibration, on_line,
                             left_sensor, right_sensor, edge_value, lift, state, acceleration>>
         ELSE /\ motors' = "unknown"
              /\ Die("vehicle")

\* while !oscillate.should_step()
EdgeCheck ==
    /\ pc = "edge_check"
    /\ pc' = IF should_step(oscillate) THEN "edge_step" ELSE "edge_poll"
    /\ Silent /\ UNCHANGED <<error, mailbox, left_calibration, on_line, motors,
                   oscillate, left_sensor, right_sensor, edge_value, lift, state, acceleration, error, op_called>>

\* channel.try_recv() in the edge loop
EdgePoll ==
    /\ pc = "edge_poll"
    /\ \E ok \in BOOLEAN : try_recv("FindEdge", "edge_read", ok)

\* let value = hardware.sensors.read(Sensors::Right)? as f64
EdgeRead ==
    /\ pc = "edge_read"
    /\ op_called' = TRUE
    /\ \E ok \in BOOLEAN :
         IF ok
         THEN /\ \E value \in Readings : edge_value' = value
              /\ pc' = "edge_test"
              /\ Reads("Right") /\ UNCHANGED <<error, mailbox, left_calibration, on_line,
                             oscillate, left_sensor, right_sensor, lift, state, acceleration>>
         ELSE Die("sensor")
    /\ UNCHANGED motors

\* if (value - calibration.line as f64).abs() < 2.0 { break 'edge; }
EdgeTest ==
    /\ pc = "edge_test"
    /\ pc' = IF EdgeFound(edge_value, left_calibration) THEN "edge_stop" ELSE "edge_check"
    /\ edge_value' = None
    /\ Silent /\ UNCHANGED <<error, mailbox, left_calibration, on_line, motors,
                   oscillate, left_sensor, right_sensor, lift, state, acceleration, op_called>>

\* oscillate.step(&mut hardware.vehicle)? at the end of 'edge
EdgeStep ==
    /\ pc = "edge_step"
    /\ IF step_due(oscillate)
       THEN /\ oscillate.duration * Multiplier <= MaxDwell
            /\ op_called' = TRUE
            /\ \E ok \in BOOLEAN :
                 IF ok
                 THEN /\ oscillate' = switched(oscillate)
                      /\ motors' = SpinCommand(Not(oscillate.direction))
                      /\ pc' = "edge_check"
                      /\ Silent /\ UNCHANGED <<error, mailbox, left_calibration, on_line,
                                     left_sensor, right_sensor, edge_value, lift, state, acceleration>>
                 ELSE /\ motors' = "unknown"
                      /\ Die("vehicle")
       ELSE /\ pc' = "edge_check"
            /\ Silent /\ UNCHANGED <<error, mailbox, left_calibration, on_line, motors,
                           oscillate, left_sensor, right_sensor, edge_value, lift, state, acceleration, error, op_called>>

\* variant: the edge search returns to the top level without stopping
EdgeStopCoasting ==
    /\ pc = "edge_stop"
    /\ op_called' = TRUE
    /\ on_line' = TRUE
    /\ pc' = "recv"
    /\ DropLocals
    /\ Silent /\ UNCHANGED <<error, mailbox, left_calibration, motors>>

\* hardware.vehicle.stop()?; on_line = true
EdgeStop ==
    /\ pc = "edge_stop"
    /\ op_called' = TRUE
    /\ \E ok \in BOOLEAN :
         IF ok
         THEN /\ motors' = "stop"
              /\ on_line' = TRUE
              /\ pc' = "recv"
              /\ DropLocals
              /\ Silent /\ UNCHANGED <<error, mailbox, left_calibration>>
         ELSE /\ motors' = "unknown"
              /\ Die("vehicle")

(***************************************************************************)
(* Command::Demo: crates/demo, one step per function the script calls.     *)
(* Every step ends with the drive motors stopped, or fails.                *)
(***************************************************************************)
\* variant: the lift goes up before the line is followed to the stop line
DemoStepsLiftFirst == <<"demo_calibrate", "demo_find_edge", "demo_lift_up", "demo_follow",
                        "demo_turn", "demo_find_edge2", "demo_follow2", "demo_lift_down">>

DemoSteps == <<"demo_calibrate", "demo_find_edge", "demo_follow", "demo_lift_up",
               "demo_turn", "demo_find_edge2", "demo_follow2", "demo_lift_down">>

DemoIndex(p) == CHOOSE i \in 1..Len(DemoSteps) : DemoSteps[i] = p

\* variant: the script looks at the mailbox between its steps
DemoDrivePolling ==
    /\ pc \in {"demo_calibrate", "demo_find_edge", "demo_follow",
               "demo_turn", "demo_find_edge2", "demo_follow2"}
    /\ op_called' = TRUE
    /\ motors' = "stop"
    /\ IF mailbox # <<>> /\ Head(mailbox).cmd = "Stop"
       THEN /\ mailbox' = Tail(mailbox)
            /\ Reply(Head(mailbox), "Nothing")
            /\ pc' = "recv"
            /\ UNCHANGED <<left_calibration, on_line, oscillate, left_sensor, right_sensor, edge_value, lift, state, acceleration>>
       ELSE /\ pc' = DemoSteps[DemoIndex(pc) + 1]
            /\ Silent /\ UNCHANGED <<error, mailbox, left_calibration, on_line,
                           oscillate, left_sensor, right_sensor, edge_value, lift, state, acceleration>>

\* calibrate, find_edge, follow_until_line and turn_on_line, each to its return
DemoDrive ==
    /\ pc \in {"demo_calibrate", "demo_find_edge", "demo_follow",
               "demo_turn", "demo_find_edge2", "demo_follow2"}
    /\ op_called' = TRUE
    /\ \E ok \in BOOLEAN :
         IF ok
         THEN /\ motors' = "stop"
              /\ pc' = DemoSteps[DemoIndex(pc) + 1]
              /\ Silent /\ UNCHANGED <<error, mailbox, left_calibration, on_line,
                             oscillate, left_sensor, right_sensor, edge_value, lift, state, acceleration>>
         ELSE /\ motors' = "unknown"
              /\ \E kind \in {"vehicle", "sensor"} : Die(kind)

\* LiftMotor::up / LiftMotor::down up to the wait for the limit switch: the
\* direction pin is set, and the PWM is started unless is_up() / is_down()
\* already reports the end position
LiftMove(dir, here, wait, clear) ==
    /\ pc = here
    /\ op_called' = TRUE
    /\ \E at_end \in BOOLEAN :
         IF at_end
         THEN /\ lift' = [lift EXCEPT !.limit = TRUE]
              /\ pc' = clear
              /\ Silent /\ UNCHANGED <<error, mailbox, left_calibration, on_line,
                             oscillate, left_sensor, right_sensor, edge_value, state, acceleration>>
         ELSE \E ok \in BOOLEAN :
                IF ok
                THEN /\ lift' = [power |-> dir, limit |-> FALSE]
                     /\ pc' = wait
                     /\ Silent /\ UNCHANGED <<error, mailbox, left_calibration, on_line,
                                    oscillate, left_sensor, right_sensor, edge_value, state, acceleration>>
                ELSE Die("lift")
    /\ UNCHANGED motors

\* while !self.is_up() { sleep(1ms) }: one reading of the limit switch
LiftWait(wait, clear) ==
    /\ pc = wait
    /\ \E at_end \in BOOLEAN :
         /\ lift' = [lift EXCEPT !.limit = at_end]
         /\ pc' = IF at_end THEN clear ELSE wait
    /\ Silent /\ UNCHANGED <<error, mailbox, left_calibration, on_line, motors, oscillate,
                   left_sensor, right_sensor, edge_value, state, acceleration, op_called>>

\* self.power.clear_pwm()?; Ok(()): the return of the call, to `next`
LiftClear(clear, next, line) ==
    /\ pc = clear
    /\ \E ok \in BOOLEAN :
         IF ok
         THEN /\ lift' = LiftAtRest
              /\ pc' = next
              /\ on_line' = line
              /\ Silent /\ UNCHANGED <<error, mailbox, left_calibration,
                             oscillate, left_sensor, right_sensor, edge_value, state, acceleration>>
         ELSE Die("lift")
    /\ UNCHANGED <<motors, op_called>>

\* lift.up(Speed::HALF)
DemoLiftUp ==
    \/ LiftMove("up", "demo_lift_up", "demo_lift_up_wait", "demo_lift_up_clear")
    \/ LiftWait("demo_lift_up_wait", "demo_lift_up_clear")
    \/ LiftClear("demo_lift_up_clear", "demo_turn", on_line)

\* variant: the demo script is taken to end on the line
DemoLiftDownOnLine ==
    \/ LiftMove("down", "demo_lift_down", "demo_lift_down_wait", "demo_lift_down_clear")
    \/ LiftWait("demo_lift_down_wait", "demo_lift_down_clear")
    \/ LiftClear("demo_lift_down_clear", "recv", TRUE)

\* lift.down(Speed::HALF), the return of demo(), on_line = false, continue 'outer
DemoLiftDown ==
    \/ LiftMove("down", "demo_lift_down", "demo_lift_down_wait", "demo_lift_down_clear")
    \/ LiftWait("demo_lift_down_wait", "demo_lift_down_clear")
    \/ LiftClear("demo_lift_down_clear", "recv", FALSE)

Actor ==
    \/ RecvHealth \/ RecvDemo \/ RecvFollowLine \/ RecvCalibrate \/ RecvFindEdge \/ RecvStop
    \/ FollowPoll \/ FollowRead \/ FollowDrive
    \/ CalStart \/ CalWait \/ CalWaitPoll \/ CalStep \/ CalLog \/ CalLogPoll
    \/ CalReadLeft \/ CalReadRight \/ CalStop
    \/ EdgeStart \/ EdgeCheck \/ EdgePoll \/ EdgeRead \/ EdgeTest \/ EdgeStep \/ EdgeStop
    \/ DemoDrive \/ DemoLiftUp \/ DemoLiftDown

Next ==
    \/ \E c \in CallerIds, cmd \in Commands : Request(c, cmd)
    \/ \E c \in CallerIds, cmd \in Commands : RequestRefused(c, cmd)
    \/ \E c \in CallerIds : ReplyLost(c)
    \/ Tick
    \/ Actor

Spec == Init /\ [][Next]_vars

(***************************************************************************)
(* Properties.                                                             *)
(***************************************************************************)
\* the places where the thread polls the mailbox inside a running operation
PollPcs == {"follow_poll", "cal_wait_poll", "cal_log_poll", "edge_poll"}

\* this step takes the head of the mailbox out (at a poll or at the top-level recv)
Dequeues ==
    /\ pc \in PollPcs \cup {"recv"}
    /\ mailbox # <<>>
    /\ Len(mailbox') < Len(mailbox)

DequeuesCmd(cmd) == Dequeues /\ Head(mailbox).cmd = cmd

\* the operation a Busy denial names: the reason of a CONFLICT answer, or the
\* command itself for the FOUND answer of an Already.. result
BusyNamed(cmd, value) ==
    LET r == ResponseFrom(cmd, value) IN
    CASE r.status = "FOUND" -> cmd
      [] r.status = "CONFLICT" /\ r.reason = "EDGE" -> "FindEdge"
      [] r.status = "CONFLICT" /\ r.reason \in {"FOLLOW", "FOLLOWING"} -> "FollowLine"
      [] r.status = "CONFLICT" /\ r.reason = "CALIBRATE" -> "Calibrate"
      [] OTHER -> Nothing

\* the step answers the head of the mailbox with `value`, on its own channel
Answers(value) ==
    /\ reply'.chan = Head(mailbox).chan
    /\ reply'.cmd = Head(mailbox).cmd
    /\ reply'.value = value

C2_StopNamesOperation ==
    [][DequeuesCmd("Stop") =>
          \/ pc' = "dead" /\ reply' = NoReply
          \/ /\ motors' = "stop"
             /\ pc' = "recv"
             /\ Answers(IF pc = "recv" THEN "Nothing" ELSE Running)
             /\ ResponseFrom("Stop", reply'.value).status = "OK"
             /\ reply.cmd = "Stop" => reply'.value = "Nothing"]_vars

\* C2 witness: a Stop has just cancelled the follow loop
C2_Witness ==
    /\ reply.cmd = "Stop" /\ reply.value = "FollowLine"
    /\ pc = "recv" /\ motors = "stop"

\* C3: a FollowLine taken while no calibration is cached and on_line is false is
\* answered NotOnTheLine (405, NOTONLINE); no capability call is made and the
\* actor state is unchanged.
C3_FreshFollowLineDenied ==
    [][(DequeuesCmd("FollowLine") /\ pc = "recv"
            /\ left_calibration = None /\ ~on_line) =>
          /\ Answers("NotOnTheLine")
          /\ ResponseFrom("FollowLine", reply'.value) =
                HardwareResponse("METHOD_NOT_ALLOWED", "NOTONLINE")
          /\ ~op_called'
          /\ UNCHANGED <<pc, left_calibration, on_line, motors, oscillate,
                         left_sensor, right_sensor, edge_value, lift, state, acceleration, error>>]_vars

\* C3 witness: the denial was sent by an actor that has no calibration
C3_Witness ==
    /\ reply.cmd = "FollowLine" /\ reply.value = "NotOnTheLine"
    /\ left_calibration = None /\ ~on_line /\ pc = "recv"

\* C4: a FindEdge taken at top level while no calibration is cached is answered
\* NoCalibration (405); no capability call is made, calibration and on_line are
\* unchanged and the actor is back at the top-level recv.
C4_FindEdgeNeedsCalibration ==
    [][(DequeuesCmd("FindEdge") /\ pc = "recv" /\ left_calibration = None) =>
          /\ Answers("NoCalibration")
          /\ ResponseFrom("FindEdge", reply'.value).status = "METHOD_NOT_ALLOWED"
          /\ ~op_called'
          /\ pc' = "recv"
          /\ UNCHANGED <<left_calibration, on_line, motors, oscillate, error>>]_vars

\* C4 witness: after the denial the actor waits at recv with the next message queued
C4_Witness ==
    /\ reply.cmd = "FindEdge" /\ reply.value = "NoCalibration"
    /\ pc = "recv" /\ mailbox # <<>>

Accepted(op) ==
    CASE op = "FollowLine" -> on_line /\ left_calibration # None
      [] op = "FindEdge" -> left_calibration # None
      [] OTHER -> TRUE

\* the first place of each operation, before its first capability call
FirstPc(op) ==
    CASE op = "FollowLine" -> "follow_poll"
      [] op = "FindEdge" -> "edge_start"
      [] OTHER -> "cal_start"

\* C6: when Calibrate, FindEdge or FollowLine is taken at top level and its
\* arbitration succeeds, the Success reply is sent in that very step, on the
\* command's channel, while the operation is only about to start: no spin,
\* drive, stop or sensor call has been made for it and the motors are as they
\* were; the operation is still running when the reply is out.
C6_AckOnAccept ==
    [][\A op \in Operations :
          (DequeuesCmd(op) /\ pc = "recv" /\ Accepted(op)) =>
             /\ Answers("Success")
             /\ ResponseFrom(op, reply'.value).status = "OK"
             /\ pc' = FirstPc(op)
             /\ Running' = op
             /\ ~op_called'
             /\ motors' = motors
             /\ oscillate' = None]_vars

\* C6 witness: FindEdge has been acknowledged and has not yet started to spin
C6_Witness ==
    /\ reply.cmd = "FindEdge" /\ reply.value = "Success"
    /\ pc = "edge_start" /\ ~op_called /\ motors = "stop" /\ ~on_line

\* what was queued stays queued, in order (new messages may be appended)
StaysQueued ==
    /\ Len(mailbox') >= Len(mailbox)
    /\ SubSeq(mailbox', 1, Len(mailbox)) = mailbox

\* C7: a Demo taken from the mailbox is answered Success before the script
\* makes its first call; while the script runs no message leaves the mailbox,
\* no reply is sent and every waiting caller keeps waiting, a Stop included; the
\* mailbox is read again only after the last step of the script.
C7_DemoDoesNotPoll ==
    [][/\ DequeuesCmd("Demo") =>
             Answers("Success") /\ pc' = "demo_calibrate" /\ ~op_called'
       /\ Running = "Demo" =>
             /\ reply' \in {reply, NoReply}
             /\ \A c \in CallerIds : callers[c] # Nothing => callers'[c] = callers[c]
             /\ pc' # "dead" => StaysQueued
             /\ pc' = "recv" => pc = "demo_lift_down_clear"]_vars

\* C7 witness: the script is at its last step and a Stop is still queued, unanswered
C7_Witness ==
    /\ pc = "demo_lift_down"
    /\ mailbox # <<>>
    /\ Head(mailbox).cmd = "Stop"
    /\ callers[Head(mailbox).chan] = "Stop"

\* C8: a capability call that fails ends the thread in that step, without a
\* reply and without a second attempt; a thread that has ended stays ended, takes
\* no message and sends no reply: callers that still wait only see their reply
\* channel closed.
C8_FailureIsFatal ==
    [][/\ error' # Nothing => pc' = "dead"
       /\ (pc # "dead" /\ pc' = "dead") =>
             /\ error' \in {"vehicle", "sensor", "lift"}
             /\ op_called'
             /\ reply' = NoReply
             /\ callers' = callers
       /\ pc = "dead" =>
             /\ pc' = "dead" /\ error' = error /\ motors' = motors
             /\ mailbox = <<>> /\ mailbox' = <<>>
             /\ reply = NoReply /\ reply' = NoReply
             /\ \A c \in CallerIds : callers'[c] \in {callers[c], Nothing}]_vars

\* C8 witness: a sensor read failed and a caller still waits for its answer
C8_Witness ==
    /\ pc = "dead" /\ error = "sensor"
    /\ \E c \in CallerIds : callers[c] = "Stop"

\* C9: the wait of a caller ends only with the reply to its own command, sent in
\* the step that takes this command from the mailbox, or with the end of the
\* thread; a step that takes a command and does not fail answers exactly this
\* command, on the channel that came with it, and no other step sends a reply.
C9_OneReplyOnOwnChannel ==
    [][/\ \A c \in CallerIds :
             (callers[c] # Nothing /\ callers'[c] = Nothing) =>
                \/ pc = "dead"
                \/ /\ Dequeues
                   /\ Head(mailbox).chan = c
                   /\ Head(mailbox).cmd = callers[c]
                   /\ reply'.chan = c /\ reply'.cmd = callers[c]
       /\ (Dequeues /\ pc' # "dead") =>
             /\ mailbox' = Tail(mailbox)
             /\ reply'.chan = Head(mailbox).chan
             /\ reply'.cmd = Head(mailbox).cmd
             /\ reply'.value # Nothing
             /\ callers' = [callers EXCEPT ![Head(mailbox).chan] = Nothing]
       /\ (reply' # reply /\ reply' # NoReply) => Dequeues
       /\ \A i \in 1..Len(mailbox) : callers[mailbox[i].chan] = mailbox[i].cmd
       /\ \A i, j \in 1..Len(mailbox) : mailbox[i].chan = mailbox[j].chan => i = j]_vars

\* C9 witness: the second caller was answered while the first, queued behind
\* it, still waits
C9_Witness ==
    /\ reply.chan = 2 /\ callers[2] = Nothing
    /\ callers[1] # Nothing
    /\ pc # "dead" /\ mailbox # <<>>

\* the calls that make the unit of work of a pass of each polling loop
WorkPcs == {"follow_read", "follow_drive", "cal_read_left", "cal_read_right",
            "edge_read", "edge_test"}

\* C10: each pass of the body of a polling loop (follow loop, both calibrate
\* loops, edge loop) begins with one non-blocking poll that takes at most one
\* message; the sensor reads and the drive call of the pass come only after this
\* poll and take nothing from the mailbox, and the next poll comes only after
\* the loop went round; a Stop at the head of the mailbox at the poll ends the
\* operation there, before any sensor read or drive call of that pass.
C10_PollBeforeWork ==
    [][/\ (pc \in PollPcs /\ pc' \notin {pc, "dead"}) =>
             \/ mailbox' = mailbox
             \/ mailbox # <<>> /\ mailbox' = Tail(mailbox)
       /\ (pc \in WorkPcs /\ pc' # "dead") => StaysQueued
       /\ (pc' = "follow_read" /\ pc # pc') => pc = "follow_poll"
       /\ (pc' = "cal_read_left" /\ pc # pc') => pc = "cal_log_poll"
       /\ (pc' = "edge_read" /\ pc # pc') => pc = "edge_poll"
       /\ (pc' = "follow_poll" /\ pc # pc') => pc \in {"recv", "follow_drive"}
       /\ (pc' = "cal_wait_poll" /\ pc # pc') => pc = "cal_wait"
       /\ (pc' = "cal_log_poll" /\ pc # pc') => pc = "cal_log"
       /\ (pc' = "edge_poll" /\ pc # pc') => pc = "edge_check"
       /\ (pc \in PollPcs /\ pc' # pc /\ mailbox # <<>> /\ Head(mailbox).cmd = "Stop") =>
             \/ pc' = "dead"
             \/ pc' = "recv" /\ motors' = "stop" /\ reply'.cmd = "Stop"
       /\ (pc \in PollPcs /\ pc' \in WorkPcs \cup {"cal_wait"}) =>
             motors' = motors /\ op_called' = op_called]_vars

\* C10 witness: a command was answered by the poll of the logging loop and the
\* sensor read of the same pass comes next, with more messages queued
C10_Witness ==
    /\ pc = "cal_read_left"
    /\ reply.cmd = "FindEdge" /\ reply.value = "Calibrate"
    /\ mailbox # <<>> /\ Head(mailbox).cmd = "Stop"

\* the thread is inside the Calibrate arm
CalibratePcs == {"cal_start", "cal_wait", "cal_wait_poll", "cal_step", "cal_log",
                 "cal_log_poll", "cal_read_left", "cal_read_right", "cal_stop"}

\* C11: a Calibrate taken at top level is always accepted and clears on_line;
\* inside the sweep the thread leaves each of the two loops as soon as it finds
\* the dwell over, and unless a Stop or a Demo is taken or a capability call
\* fails the sweep is left only through its last statement, which stops the
\* drive motors and caches a calibration computed from the left log: afterwards
\* the cached calibration is Some, on_line is false and the thread is back at
\* the top-level recv.
C11_CalibrateCompletes ==
    [][/\ (DequeuesCmd("Calibrate") /\ pc = "recv") =>
             Answers("Success") /\ ~on_line' /\ pc' = "cal_start"
       /\ (pc \in CalibratePcs /\ pc' \notin CalibratePcs \cup {"dead"}) =>
             \/ DequeuesCmd("Stop") \/ DequeuesCmd("Demo")
             \/ /\ pc = "cal_stop" /\ pc' = "recv"
                /\ motors' = "stop"
                /\ left_calibration' \in Calibrations(left_sensor)
                /\ left_calibration' # None
                /\ ~on_line'
                /\ reply' = NoReply
       /\ (pc = "cal_wait" /\ should_step(oscillate) /\ pc' # pc) => pc' = "cal_step"
       /\ (pc = "cal_step" /\ pc' \notin {pc, "dead"}) => pc' = "cal_log"
       /\ (pc = "cal_log" /\ should_step(oscillate) /\ pc' # pc) => pc' = "cal_stop"
       /\ (pc \in CalibratePcs /\ pc' # "dead") => ~on_line']_vars

\* C11 witness: the sweep is over, a calibration is cached and the next
\* command waits in the mailbox of the idle actor
C11_Witness ==
    /\ pc = "recv" /\ left_calibration # None /\ left_calibration.line = 200
    /\ motors = "stop" /\ ~on_line /\ reply = NoReply
    /\ mailbox # <<>> /\ Head(mailbox).cmd = "FindEdge"

\* the thread is inside the FindEdge arm
EdgePcs == {"edge_start", "edge_check", "edge_poll", "edge_read", "edge_test",
            "edge_step", "edge_stop"}

\* |reading - line| < 2 for two u8 values
NearLine(value, line) == value - line \in {-1, 0, 1}

AfterPoll(p) ==
    CASE p = "follow_poll" -> "follow_read"
      [] p = "cal_wait_poll" -> "cal_wait"
      [] p = "cal_log_poll" -> "cal_read_left"
      [] p = "edge_poll" -> "edge_read"

\* where the thread is after it took `cmd` at `p` and answered it
AfterReply(p, cmd) ==
    CASE cmd = "Stop" -> "recv"
      [] cmd = "Demo" -> "demo_calibrate"
      [] p \in PollPcs -> AfterPoll(p)
      [] cmd = "Health" -> "recv"
      [] OTHER -> IF Accepted(cmd) THEN FirstPc(cmd) ELSE "recv"

\* C13: a reply whose receiver is gone is sent once and its failure has no
\* effect: the step that takes the command does to the thread, the motors, the
\* calibration and on_line exactly what it does when the reply arrives, the
\* command is not put back, the thread does not end because of the failed
\* send, and a reply is sent only by the step that takes its command.
C13_FailedSendIgnored ==
    [][/\ (Dequeues /\ pc' # "dead" /\ ~reply'.delivered) =>
             LET cmd == Head(mailbox).cmd IN
             /\ reply'.chan = Head(mailbox).chan /\ reply'.cmd = cmd
             /\ mailbox' = Tail(mailbox)
             /\ pc' = AfterReply(pc, cmd)
             /\ motors' = IF cmd = "Stop" THEN "stop" ELSE motors
             /\ on_line' = IF cmd = "Calibrate" /\ pc = "recv" THEN FALSE ELSE on_line
             /\ left_calibration' = left_calibration
             /\ error' = error
             /\ op_called' = IF cmd = "Stop" THEN TRUE
                             ELSE IF pc = "recv" \/ cmd = "Demo" THEN FALSE ELSE op_called
       /\ (Dequeues /\ pc' = "dead") => Head(mailbox).cmd = "Stop" /\ error' = "vehicle"
       /\ reply'.chan # 0 => Dequeues]_vars

\* C13 witness: the reply to a Calibrate could not be delivered and the sweep
\* is about to start all the same
C13_Witness ==
    /\ reply.cmd = "Calibrate" /\ reply.value = "Success" /\ ~reply.delivered
    /\ pc = "cal_start" /\ ~on_line

(***************************************************************************)
(* The keyboard program: crates/cli.  It owns the same vehicle, sensors and *)
(* lift; `state` holds the drive keys that are down, logbot.calibration is  *)
(* left_calibration.  calibrate() and follow_line() are taken to their      *)
(* return.                                                                 *)
(***************************************************************************)
FORWARD == 1
BACKWARD == 2
LEFT == 4
RIGHT == 8

DriveKeys == {"w", "s", "a", "d"}

\* the modifier of a drive key
Modifier(c) ==
    CASE c = "w" -> FORWARD
      [] c = "s" -> BACKWARD
      [] c = "a" -> LEFT
      [] c = "d" -> RIGHT

\* state & m != 0, state | m, state & !m
HasBit(s, m) == (s \div m) % 2 = 1
SetBit(s, m) == IF HasBit(s, m) THEN s ELSE s + m
ClearBit(s, m) == IF HasBit(s, m) THEN s - m ELSE s

\* the direction the keys held down ask for, None when they ask for none
u8_into_state(s) ==
    LET s1 == IF HasBit(s, RIGHT) /\ HasBit(s, LEFT)
              THEN ClearBit(ClearBit(s, RIGHT), LEFT) ELSE s
        s2 == IF HasBit(s1, FORWARD) /\ HasBit(s1, BACKWARD)
              THEN ClearBit(ClearBit(s1, FORWARD), BACKWARD) ELSE s1
    IN  IF HasBit(s2, FORWARD) /\ HasBit(s2, LEFT) THEN [direction |-> "forward_left"]
        ELSE IF HasBit(s2, FORWARD) /\ HasBit(s2, RIGHT) THEN [direction |-> "forward_right"]
        ELSE IF HasBit(s2, BACKWARD) /\ HasBit(s2, LEFT) THEN [direction |-> "backward_left"]
        ELSE IF HasBit(s2, BACKWARD) /\ HasBit(s2, RIGHT) THEN [direction |-> "backward_right"]
        ELSE IF HasBit(s2, FORWARD) THEN [direction |-> "forward"]
        ELSE IF HasBit(s2, BACKWARD) THEN [direction |-> "backward"]
        ELSE IF HasBit(s2, RIGHT) THEN [direction |-> "spin_right"]
        ELSE IF HasBit(s2, LEFT) THEN [direction |-> "spin_left"]
        ELSE None

\* the places inside a Lift.up or Lift.down call of the keyboard program
CliLiftPcs == {"cli_lift_up", "cli_lift_up_wait", "cli_lift_up_clear",
               "cli_lift_down", "cli_lift_down_wait", "cli_lift_down_clear"}

CliPcs == {"cli_read", "cli_exit"} \cup CliLiftPcs

\* the keys changed to `keys`: drive the direction they ask for, or stop
DriveKeysChanged(keys) ==
    /\ pc = "cli_read"
    /\ \E ok \in BOOLEAN :
         IF ok
         THEN /\ state' = keys
              /\ motors' = IF u8_into_state(keys) = None THEN "stop"
                          ELSE u8_into_state(keys).direction
              /\ Silent /\ UNCHANGED <<pc, error, mailbox, left_calibration, on_line, oscillate,
                             left_sensor, right_sensor, edge_value, lift, acceleration, op_called>>
         ELSE /\ motors' = "unknown"
              /\ Die("vehicle")
              /\ UNCHANGED op_called

\* KeyEventKind::Press of a drive key: state |= modifier
KeyPress(c) == DriveKeysChanged(SetBit(state, Modifier(c)))

\* KeyEventKind::Release of a drive key: state &= !modifier
KeyRelease(c) == DriveKeysChanged(ClearBit(state, Modifier(c)))

\* 'c': calibrate(logbot)?, which returns with the vehicle stopped: completed
\* (the calibration is kept), cancelled with 'c', or left with Esc (break)
KeyCalibrate ==
    /\ pc = "cli_read"
    /\ \E ok \in BOOLEAN :
         IF ok
         THEN /\ motors' = "stop"
              /\ \E end \in {"completed", "cancelled", "esc"} :
                   /\ pc' = IF end = "esc" THEN "cli_exit" ELSE "cli_read"
                   /\ IF end = "completed"
                      THEN \E value \in Readings : left_calibration' \in Calibrations(<<value>>)
                      ELSE UNCHANGED left_calibration
              /\ Silent /\ UNCHANGED <<error, mailbox, on_line, oscillate,
                             left_sensor, right_sensor, edge_value, lift, state, acceleration, op_called>>
         ELSE /\ motors' = "unknown"
              /\ \E kind \in {"vehicle", "sensor"} : Die(kind)
              /\ UNCHANGED op_called

\* 'e': follow_line(logbot)? if there is a calibration; it returns on 'e' or Esc,
\* after vehicle.stop()
KeyFollowLine ==
    /\ pc = "cli_read"
    /\ left_calibration # None
    /\ \E ok \in BOOLEAN :
         IF ok
         THEN /\ motors' = "stop"
              /\ \E end \in {"target", "esc"} :
                   pc' = IF end = "esc" THEN "cli_exit" ELSE "cli_read"
              /\ Silent /\ UNCHANGED <<error, mailbox, left_calibration, on_line, oscillate,
                             left_sensor, right_sensor, edge_value, lift, state, acceleration, op_called>>
         ELSE /\ motors' = "unknown"
              /\ \E kind \in {"vehicle", "sensor"} : Die(kind)
              /\ UNCHANGED op_called

\* variant: the lift keys are taken whatever drive keys are down
KeyLiftAnyState(dir) ==
    /\ pc = "cli_read"
    /\ pc' = IF dir = "up" THEN "cli_lift_up" ELSE "cli_lift_down"
    /\ Silent /\ UNCHANGED <<error, mailbox, left_calibration, on_line, motors, oscillate,
                   left_sensor, right_sensor, edge_value, lift, state, acceleration, op_called>>

\* KeyCode::Up if state == 0, KeyCode::Down if state == 0
KeyLift(dir) ==
    /\ pc = "cli_read"
    /\ state = 0
    /\ pc' = IF dir = "up" THEN "cli_lift_up" ELSE "cli_lift_down"
    /\ Silent /\ UNCHANGED <<error, mailbox, left_calibration, on_line, motors, oscillate,
                   left_sensor, right_sensor, edge_value, lift, state, acceleration, op_called>>

\* logbot.lift.up(lift_speed)?; continue
CliLiftUp ==
    \/ LiftMove("up", "cli_lift_up", "cli_lift_up_wait", "cli_lift_up_clear")
    \/ LiftWait("cli_lift_up_wait", "cli_lift_up_clear")
    \/ LiftClear("cli_lift_up_clear", "cli_read", on_line)

\* logbot.lift.down(lift_speed)?; continue
CliLiftDown ==
    \/ LiftMove("down", "cli_lift_down", "cli_lift_down_wait", "cli_lift_down_clear")
    \/ LiftWait("cli_lift_down_wait", "cli_lift_down_clear")
    \/ LiftClear("cli_lift_down_clear", "cli_read", on_line)

\* KeyCode::Esc: break, then logbot.vehicle.stop()?
KeyEsc ==
    /\ pc = "cli_read"
    /\ \E ok \in BOOLEAN :
         IF ok
         THEN /\ motors' = "stop"
              /\ pc' = "cli_exit"
              /\ Silent /\ UNCHANGED <<error, mailbox, left_calibration, on_line, oscillate,
                             left_sensor, right_sensor, edge_value, lift, state, acceleration, op_called>>
         ELSE /\ motors' = "unknown"
              /\ Die("vehicle")
              /\ UNCHANGED op_called

(***************************************************************************)
(* The two programs that move the lift: the server running the demo script *)
(* while clients ask for Stop and Demo, and the keyboard program.          *)
(***************************************************************************)
LiftInit ==
    /\ mailbox = <<>>
    /\ callers = [c \in CallerIds |-> Nothing]
    /\ reply = NoReply
    /\ pc \in {"recv", "cli_read"}
    /\ left_calibration = None
    /\ on_line = FALSE
    /\ motors = "stop"
    /\ oscillate = None
    /\ left_sensor = <<>>
    /\ right_sensor = <<>>
    /\ edge_value = None
    /\ lift = LiftAtRest
    /\ state = 0
    /\ acceleration = None
    /\ error = Nothing
    /\ op_called = FALSE
    /\ read = None

LiftCommands == {"Stop", "Demo"}

LiftNext ==
    \/ \E c \in CallerIds, cmd \in LiftCommands : pc \notin CliPcs /\ Request(c, cmd)
    \/ RecvStop \/ RecvDemo
    \/ DemoDrive \/ DemoLiftUp \/ DemoLiftDown
    \/ \E c \in DriveKeys : KeyPress(c)
    \/ \E c \in DriveKeys : KeyRelease(c)
    \/ KeyCalibrate \/ KeyFollowLine \/ KeyEsc
    \/ \E dir \in {"up", "down"} : KeyLift(dir)
    \/ CliLiftUp \/ CliLiftDown

LiftSpec == LiftInit /\ [][LiftNext]_vars

(***************************************************************************)
(* The mailbox under load.  Besides the requests that are followed one by  *)
(* one, other clients have filled the mailbox up to one free place with    *)
(* health checks before the thread took its first message.                 *)
(***************************************************************************)
\* a request of a client that is not followed: its reply channel is not tracked
OtherRequest == [cmd |-> "Health", chan |-> 0]

BacklogInit ==
    /\ mailbox = [i \in 1..(MailboxCapacity - 1) |-> OtherRequest]
    /\ callers = [c \in CallerIds |-> Nothing]
    /\ reply = NoReply
    /\ pc = "recv"
    /\ left_calibration = None
    /\ on_line = FALSE
    /\ motors = "stop"
    /\ oscillate = None
    /\ left_sensor = <<>>
    /\ right_sensor = <<>>
    /\ edge_value = None
    /\ lift = LiftAtRest
    /\ state = 0
    /\ acceleration = None
    /\ error = Nothing
    /\ op_called = FALSE
    /\ read = None

\* the request of slot c waits inside send(..).await for room in the mailbox
Suspended(c) ==
    /\ callers[c] # Nothing
    /\ \A i \in 1..Len(mailbox) : mailbox[i].chan # c

\* state.hardware.send(Command::X(wx)).await on a full mailbox: the future is
\* pending, nothing is enqueued
RequestSuspended(c, cmd) ==
    /\ callers[c] = Nothing
    /\ pc # "dead"
    /\ Len(mailbox) >= MailboxCapacity
    /\ callers' = [callers EXCEPT ![c] = cmd]
    /\ reply' = NoReply
    /\ UNCHANGED read
    /\ UNCHANGED <<mailbox, pc, left_calibration, on_line, motors, oscillate,
                   left_sensor, right_sensor, edge_value, lift, state, acceleration, error, op_called>>

\* the pending send is woken once the mailbox has room and enqueues its command
RequestResumed(c) ==
    /\ Suspended(c)
    /\ pc # "dead"
    /\ Len(mailbox) < MailboxCapacity
    /\ mailbox' = Append(mailbox, [cmd |-> callers[c], chan |-> c])
    /\ reply' = NoReply
    /\ UNCHANGED read
    /\ UNCHANGED <<callers, pc, left_calibration, on_line, motors, oscillate,
                   left_sensor, right_sensor, edge_value, lift, state, acceleration, error, op_called>>

\* the commands the followed requests carry under load: the health checks and
\* stops are taken at the top-level recv, one after the other; during a demo
\* nothing is taken and the mailbox fills
BacklogCommands == {"Health", "Stop", "Demo"}

BacklogNext ==
    \/ \E c \in CallerIds, cmd \in BacklogCommands : Request(c, cmd)
    \/ \E c \in CallerIds, cmd \in BacklogCommands : RequestSuspended(c, cmd)
    \/ \E c \in CallerIds : RequestResumed(c)
    \/ \E c \in CallerIds, cmd \in BacklogCommands : RequestRefused(c, cmd)
    \/ \E c \in CallerIds : ReplyLost(c)
    \/ RecvHealth \/ RecvStop \/ RecvDemo
    \/ DemoDrive \/ DemoLiftUp \/ DemoLiftDown

BacklogSpec == BacklogInit /\ [][BacklogNext]_vars

\* C14: the mailbox never holds more than its capacity of 10 commands; a
\* request sent while it is full enqueues nothing and waits, unanswered, and
\* its command enters the mailbox, at the end, only in a later step that finds
\* the mailbox below its capacity, that is after the thread has taken a message.
C14_BoundedMailbox ==
    [][/\ Len(mailbox) <= MailboxCapacity /\ Len(mailbox') <= MailboxCapacity
       /\ \A c \in CallerIds :
             /\ (callers[c] = Nothing /\ callers'[c] # Nothing) =>
                   IF Len(mailbox) = MailboxCapacity
                   THEN mailbox' = mailbox /\ Suspended(c)'
                   ELSE mailbox' = Append(mailbox, [cmd |-> callers'[c], chan |-> c])
             /\ (Suspended(c) /\ pc # "dead" /\ pc' # "dead") =>
                   /\ callers'[c] = callers[c]
                   /\ reply'.chan # c
                   /\ \/ Suspended(c)'
                      \/ /\ Len(mailbox) < MailboxCapacity
                         /\ mailbox' = Append(mailbox, [cmd |-> callers[c], chan |-> c])
       /\ Len(mailbox') > Len(mailbox) => Len(mailbox) < MailboxCapacity]_vars

\* C14 witness: the mailbox is full and the second request waits for room
C14_Witness ==
    /\ Len(mailbox) = MailboxCapacity
    /\ mailbox[MailboxCapacity].chan = 1
    /\ Suspended(2)
    /\ pc # "dead"

\* the places inside a Lift.up or Lift.down call, of either program
LiftPcs == DemoLiftPcs \cup CliLiftPcs

\* C15: while a Lift.up or Lift.down call is in progress the last command given
\* to the drive motors is a stop (or none was given) and no drive command is
\* given; the call returns only after its limit switch was read at the end
\* position; meanwhile no message leaves the mailbox and no reply is sent, so a
\* Stop that is queued stays queued.
C15_LiftExcludesDrive ==
    [][(pc \in LiftPcs) =>
        (/\ motors = "stop"
         /\ motors' = "stop"
         /\ StaysQueued \/ pc' = "dead"
         /\ reply' = NoReply
         /\ \A c \in CallerIds : callers[c] # Nothing => callers'[c] = callers[c]
         /\ lift.power # "clear" => lift'.power = lift.power \/ lift.limit \/ pc' = "dead"
         /\ (pc' \notin LiftPcs /\ pc' # "dead") => lift.limit /\ lift'.power = "clear")]_vars

\* C15 witness: the demo script waits for the lift to reach its upper end while
\* a Stop is queued, unanswered; the drive motors are stopped
C15_Witness ==
    /\ pc = "demo_lift_up_wait"
    /\ lift = [power |-> "up", limit |-> FALSE]
    /\ motors = "stop"
    /\ mailbox # <<>>
    /\ Head(mailbox).cmd = "Stop"
    /\ callers[Head(mailbox).chan] = "Stop"

(***************************************************************************)
(* crates/oscillate on its own: a caller starts an oscillation of any      *)
(* dwell and direction on a vehicle and calls step() at any time.          *)
(***************************************************************************)
\* the longest dwell, in ticks, of an oscillation on its own
MaxOscDwell == 9

OscillateInit ==
    /\ mailbox = <<>>
    /\ callers = [c \in CallerIds |-> Nothing]
    /\ reply = NoReply
    /\ pc = "osc_new"
    /\ left_calibration = None
    /\ on_line = FALSE
    /\ motors = "stop"
    /\ oscillate = None
    /\ left_sensor = <<>>
    /\ right_sensor = <<>>
    /\ edge_value = None
    /\ lift = LiftAtRest
    /\ state = 0
    /\ acceleration = None
    /\ error = Nothing
    /\ op_called = FALSE
    /\ read = None

\* Oscillate::new(duration, direction, multiplier).start(vehicle)?
OscStart(duration, direction) ==
    /\ pc = "osc_new"
    /\ op_called' = TRUE
    /\ \E ok \in BOOLEAN :
         IF ok
         THEN /\ oscillate' = ActiveOscillation(duration, direction)
              /\ motors' = SpinCommand(direction)
              /\ pc' = "osc_active"
              /\ Silent /\ UNCHANGED <<error, mailbox, left_calibration, on_line,
                             left_sensor, right_sensor, edge_value, lift, state, acceleration>>
         ELSE /\ motors' = "unknown"
              /\ Die("vehicle")

\* oscillation.step(vehicle)?
OscStep ==
    /\ pc = "osc_active"
    /\ LET r == step(oscillate) IN
         IF r.result
         THEN /\ oscillate.duration * Multiplier <= MaxOscDwell
              /\ \E ok \in BOOLEAN :
                   IF ok
                   THEN /\ oscillate' = r.oscillation
                        /\ motors' = SpinCommand(r.spin.direction)
                        /\ Silent /\ UNCHANGED <<pc, error, mailbox, left_calibration, on_line,
                                       left_sensor, right_sensor, edge_value, lift, state, acceleration>>
                   ELSE /\ motors' = "unknown"
                        /\ Die("vehicle")
         ELSE /\ Silent /\ UNCHANGED <<pc, error, mailbox, left_calibration, on_line, motors,
                             oscillate, left_sensor, right_sensor, edge_value, lift, state, acceleration>>
    /\ UNCHANGED op_called

OscillateNext ==
    \/ \E duration \in 0..MaxOscDwell, direction \in {"Left", "Right"} : OscStart(duration, direction)
    \/ Tick
    \/ OscStep

OscillateSpec == OscillateInit /\ [][OscillateNext]_vars

\* this step is a step() call that switched
Switches ==
    /\ pc = "osc_active" /\ pc' = "osc_active"
    /\ oscillate'.direction # oscillate.direction

\* C16: after a step() that switched an oscillation of non-zero dwell,
\* should_step() is false and the dwell is the dwell before times the multiplier.
C16_NotDueAfterSwitch ==
    [][(Switches /\ oscillate.duration > 0) =>
          /\ ~should_step(oscillate')
          /\ oscillate'.duration = oscillate.duration * Multiplier]_vars

\* C16 witness: an oscillation of dwell 1 has switched once and has not run since
C16_Witness ==
    /\ pc = "osc_active"
    /\ oscillate = [duration |-> Multiplier, direction |-> "Right", elapsed |-> 0]
    /\ motors = "spin_right"

\* C17 as claimed: step() switches exactly when should_step() holds.
C17_StepsExactlyWhenDue ==
    pc = "osc_active" => (step(oscillate).result <=> should_step(oscillate))

\* C17 witness: the dwell has elapsed to the tick: should_step() holds and step()
\* does nothing
C17_Witness ==
    /\ pc = "osc_active"
    /\ oscillate.duration > 0
    /\ oscillate.elapsed = oscillate.duration
    /\ should_step(oscillate)
    /\ ~step(oscillate).result
    /\ step(oscillate).oscillation = oscillate

(***************************************************************************)
(* crates/speed and crates/directions.  An f64 is an exact fraction n/d    *)
(* with d > 0 in lowest terms, or one of the three values that are not     *)
(* numbers of the line: NaN (0/0), +infinity (1/0), -infinity (-1/0).      *)
(***************************************************************************)
NaN == Frac(0, 0)
Infinity == Frac(1, 0)
NegInfinity == Frac(-1, 0)

IsNaN(x) == x.n = 0 /\ x.d = 0

Sign(n) == IF n < 0 THEN -1 ELSE IF n > 0 THEN 1 ELSE 0

RECURSIVE GCD(_, _)
GCD(a, b) == IF b = 0 THEN a ELSE GCD(b, a % b)

\* the representation of n/d: lowest terms, d > 0, or one of the three above
Norm(x) ==
    IF x.d = 0 THEN Frac(Sign(x.n), 0)
    ELSE LET g == GCD(Abs(x.n), Abs(x.d))
             s == Sign(x.d)
         IN  Frac((s * x.n) \div g, (s * x.d) \div g)

\* a + b, -a, a - b, a * b, a / b on f64
F64Add(a, b) ==
    IF IsNaN(a) \/ IsNaN(b) THEN NaN
    ELSE IF a.d = 0 /\ b.d = 0 THEN (IF a.n = b.n THEN a ELSE NaN)
    ELSE IF a.d = 0 THEN a
    ELSE IF b.d = 0 THEN b
    ELSE Norm(Frac(a.n * b.d + b.n * a.d, a.d * b.d))
F64Neg(a) == Frac(-a.n, a.d)
F64Sub(a, b) == F64Add(a, F64Neg(b))
F64Mul(a, b) == Norm(Frac(a.n * b.n, a.d * b.d))
F64Div(a, b) ==
    LET s == IF b.n < 0 THEN -1 ELSE 1
    IN  Norm(Frac(s * a.n * b.d, s * a.d * b.n))
F64Abs(a) == Frac(Abs(a.n), a.d)

\* a < b and a == b on f64: false whenever either side is NaN
F64Less(a, b) ==
    /\ ~IsNaN(a) /\ ~IsNaN(b)
    /\ IF a.d = 0 /\ b.d = 0 THEN a.n < b.n ELSE a.n * b.d < b.n * a.d
F64Eq(a, b) ==
    /\ ~IsNaN(a) /\ ~IsNaN(b)
    /\ IF a.d = 0 \/ b.d = 0 THEN a = b ELSE a.n * b.d = b.n * a.d

\* Speed::MIN, Speed::HALF, Speed::MAX
Speeds == {Frac(0, 1), Frac(1, 2), Frac(1, 1)}

\* enum MotorDirection { Forward(Speed), Backward(Speed) }
Forward(speed) == [variant |-> "Forward", speed |-> speed]
Backward(speed) == [variant |-> "Backward", speed |-> speed]
MotorDirections == [variant : {"Forward", "Backward"}, speed : Speeds]

VehicleDirections == [left : MotorDirections, right : MotorDirections]

\* a == b for two fractions
FracEq(a, b) == a.n * b.d = b.n * a.d

\* Speed::new_clamp(value): value.clamp(0.0, 1.0), which is the value itself
\* unless it is less than 0.0 or greater than 1.0
new_clamp(x) ==
    IF x.n < 0 THEN Frac(0, 1) ELSE IF x.n > x.d THEN Frac(1, 1) ELSE x

\* Speed::new(value), TryFrom<f64>: (0.0..=1.0).contains(&value)
new(value) ==
    IF ~F64Less(value, Frac(0, 1)) /\ ~IsNaN(value) /\ ~F64Less(Frac(1, 1), value)
    THEN [ok |-> value]
    ELSE [err |-> value]

\* Speed::saturating_{add,sub,mul,div}_f64 and saturating_{add,sub}
speed_saturating_add_f64(speed, value) == new_clamp(F64Add(speed, value))
speed_saturating_sub_f64(speed, value) == new_clamp(F64Sub(speed, value))
speed_saturating_mul_f64(speed, value) == new_clamp(F64Mul(speed, value))
speed_saturating_div_f64(speed, value) == new_clamp(F64Div(speed, value))
speed_saturating_add(speed, rhs) == speed_saturating_add_f64(speed, rhs)
speed_saturating_sub(speed, rhs) == speed_saturating_sub_f64(speed, rhs)

\* impl Mul for Speed, impl Div<NonZero<unsigned>> for Speed
SpeedMul(a, b) == Frac(a.n * b.n, a.d * b.d)
SpeedDiv(a, rhs) == F64Div(a, Frac(rhs, 1))

\* SpeedControl::with_speed and impl Not for MotorDirection
with_speed(direction, speed) == [direction EXCEPT !.speed = speed]
not(direction) ==
    IF direction.variant = "Forward"
    THEN Backward(direction.speed) ELSE Forward(direction.speed)

\* impl Mul<Speed> for MotorDirection and for VehicleDirection
MotorMul(direction, speed) == with_speed(direction, SpeedMul(direction.speed, speed))
DirectionMul(value, speed) ==
    [left |-> MotorMul(value.left, speed), right |-> MotorMul(value.right, speed)]

\* MotorDirection::saturating_add_f64 and saturating_add
saturating_add_f64(direction, value) ==
    with_speed(direction, speed_saturating_add_f64(direction.speed, value))
saturating_add(direction, speed) == saturating_add_f64(direction, speed)

\* variant: a subtraction past zero stops the motor
wrapping_sub_f64Saturates(direction, value) ==
    with_speed(direction, speed_saturating_sub_f64(direction.speed, value))

\* MotorDirection::wrapping_sub_f64 and wrapping_sub
wrapping_sub_f64(direction, value) ==
    LET new_speed == F64Sub(direction.speed, value)
    IN  IF F64Less(new_speed, Frac(0, 1))
        THEN with_speed(not(direction), new_clamp(F64Abs(new_speed)))
        ELSE with_speed(direction, new_clamp(new_speed))
wrapping_sub(direction, speed) == wrapping_sub_f64(direction, speed)

\* variant: one wheel at rest is a stop
is_stopEither(value) ==
    F64Eq(value.left.speed, Frac(0, 1)) \/ F64Eq(value.right.speed, Frac(0, 1))

\* impl Stop for MotorDirection and for VehicleDirection
motor_is_stop(direction) == F64Eq(direction.speed, Frac(0, 1))
is_stop(value) ==
    F64Eq(value.left.speed, Frac(0, 1)) /\ F64Eq(value.right.speed, Frac(0, 1))

(***************************************************************************)
(* crates/acceleration on its own: a caller makes a ramp of any duration   *)
(* (whole milliseconds, at least one) and applies directions to it at any  *)
(* time, driving what it gets back.  A Speed is an exact fraction.         *)
(***************************************************************************)
\* the longest ramp, in milliseconds
MaxRamp == 3

\* variant: a stop leaves the ramp running
accelerateKeepsRamp(value, acc) ==
    IF is_stop(value)
    THEN [value |-> value, acceleration |-> acc]
    ELSE LET since_last == IF acc.last = None THEN 0 ELSE acc.last.elapsed
             multiplier == Frac(since_last, acc.duration)
         IN  [value |-> DirectionMul(value, new_clamp(multiplier)),
              acceleration |-> [acc EXCEPT !.last = [elapsed |-> since_last]]]

\* variant: every application starts the ramp again
accelerateRestarts(value, acc) ==
    IF is_stop(value)
    THEN [value |-> value, acceleration |-> [acc EXCEPT !.last = None]]
    ELSE LET since_last == IF acc.last = None THEN 0 ELSE acc.last.elapsed
             multiplier == Frac(since_last, acc.duration)
         IN  [value |-> DirectionMul(value, new_clamp(multiplier)),
              acceleration |-> [acc EXCEPT !.last = [elapsed |-> 0]]]

\* Accelerate::accelerate / LinearAcceleration::apply: the direction returned and
\* the ramp left behind; a ramp that begins in this call has run for 0 ms
accelerate(value, acc) ==
    IF is_stop(value)
    THEN [value |-> value, acceleration |-> [acc EXCEPT !.last = None]]
    ELSE LET since_last == IF acc.last = None THEN 0 ELSE acc.last.elapsed
             multiplier == Frac(since_last, acc.duration)
         IN  [value |-> DirectionMul(value, new_clamp(multiplier)),
              acceleration |-> [acc EXCEPT !.last = [elapsed |-> since_last]]]

AccelerationInit ==
    /\ mailbox = <<>>
    /\ callers = [c \in CallerIds |-> Nothing]
    /\ reply = NoReply
    /\ pc = "accel_new"
    /\ left_calibration = None
    /\ on_line = FALSE
    /\ motors = "stop"
    /\ oscillate = None
    /\ left_sensor = <<>>
    /\ right_sensor = <<>>
    /\ edge_value = None
    /\ lift = LiftAtRest
    /\ state = 0
    /\ acceleration = None
    /\ error = Nothing
    /\ op_called = FALSE
    /\ read = None

\* LinearAcceleration::new(duration)
AccelNew(duration) ==
    /\ pc = "accel_new"
    /\ acceleration' = [duration |-> duration, last |-> None]
    /\ pc' = "accel"
    /\ Silent /\ UNCHANGED <<error, mailbox, left_calibration, on_line, motors, oscillate,
                   left_sensor, right_sensor, edge_value, lift, state, op_called>>

\* vehicle.drive(direction.accelerate(&mut acceleration))
AccelApply(value) ==
    /\ pc = "accel"
    /\ acceleration' = accelerate(value, acceleration).acceleration
    /\ motors' = accelerate(value, acceleration).value
    /\ op_called' = TRUE
    /\ Silent /\ UNCHANGED <<pc, error, mailbox, left_calibration, on_line, oscillate,
                   left_sensor, right_sensor, edge_value, lift, state>>

\* a millisecond of wall-clock time passes for a ramp that has begun
AccelTick ==
    /\ pc = "accel"
    /\ acceleration.last # None
    /\ acceleration.last.elapsed <= acceleration.duration
    /\ acceleration' = [acceleration EXCEPT !.last.elapsed = @ + 1]
    /\ Silent /\ UNCHANGED <<pc, error, mailbox, left_calibration, on_line, motors, oscillate,
                   left_sensor, right_sensor, edge_value, lift, state, op_called>>

AccelerationNext ==
    \/ \E duration \in 1..MaxRamp : AccelNew(duration)
    \/ \E value \in VehicleDirections : AccelApply(value)
    \/ AccelTick

AccelerationSpec == AccelerationInit /\ [][AccelerationNext]_vars

\* `scaled` is `value` times e/d
ScaledBy(scaled, value, e, d) ==
    /\ scaled.left.variant = value.left.variant
    /\ scaled.right.variant = value.right.variant
    /\ FracEq(scaled.left.speed, Frac(value.left.speed.n * e, value.left.speed.d * d))
    /\ FracEq(scaled.right.speed, Frac(value.right.speed.n * e, value.right.speed.d * d))

MaxSamples == 4

\* the readings logged: two near the floor, one near the line
Samples == {25, 26, 195}

CalibrationInit ==
    /\ mailbox = <<>>
    /\ callers = [c \in CallerIds |-> Nothing]
    /\ reply = NoReply
    /\ pc = "log"
    /\ left_calibration = None
    /\ on_line = FALSE
    /\ motors = "stop"
    /\ oscillate = None
    /\ left_sensor = <<>>
    /\ right_sensor = <<>>
    /\ edge_value = None
    /\ lift = LiftAtRest
    /\ state = 0
    /\ acceleration = None
    /\ error = Nothing
    /\ op_called = FALSE
    /\ read = None

\* SingleSensorCalibration::log
Log(value) ==
    /\ pc = "log"
    /\ Len(left_sensor) < MaxSamples
    /\ left_sensor' = Append(left_sensor, value)
    /\ Silent /\ UNCHANGED <<pc, error, mailbox, left_calibration, on_line, motors, oscillate,
                   right_sensor, edge_value, lift, state, acceleration, op_called>>

\* SingleSensorCalibration::calibrate: it returns a SensorCalibration, for any log
Calibrate ==
    /\ pc = "log"
    /\ left_calibration' \in Calibrations(left_sensor)
    /\ pc' = "calibrated"
    /\ Silent /\ UNCHANGED <<error, mailbox, on_line, motors, oscillate, left_sensor,
                   right_sensor, edge_value, lift, state, acceleration, op_called>>

CalibrationNext ==
    \/ \E value \in Samples : Log(value)
    \/ Calibrate

CalibrationSpec == CalibrationInit /\ [][CalibrationNext]_vars

\* the distinct values of a log
Distinct(data) == {data[i] : i \in 1..Len(data)}

\* C19 as claimed: calibrating a log with fewer than 2 distinct values fails with
\* an error and gives no SensorCalibration.
C19_DegenerateLogFails ==
    (pc = "calibrated" /\ Cardinality(Distinct(left_sensor)) < 2) =>
        (left_calibration = None /\ error # Nothing)

\* C19 witness: a log of one sample was calibrated, to line = the sample and floor = 0
C19_Witness ==
    /\ pc = "calibrated"
    /\ left_sensor = <<25>>
    /\ left_calibration = SensorCalibration(25, 0)
    /\ error = Nothing

\* u is the f64 x cut to a whole number
Truncates(u, x) == u * x.d <= x.n /\ x.n < (u + 1) * x.d

\* the mean of the readings at `members`, 0.0 for none
ClusterMean(data, members) ==
    IF members = {} THEN Frac(0, 1) ELSE Mean(data, members)

\* C20: a calibration that was computed splits the log in two clusters such that
\* line is the larger of the two cluster means and floor the smaller, each cut
\* (not rounded) to a whole number; line >= floor; average() is (line + floor) / 2.
C20_LineIsLargerMean ==
    pc = "calibrated" =>
        /\ \E members \in SUBSET (1..Len(left_sensor)) :
              LET a == ClusterMean(left_sensor, members)
                  b == ClusterMean(left_sensor, (1..Len(left_sensor)) \ members)
                  larger == IF FracLess(a, b) THEN b ELSE a
                  smaller == IF FracLess(a, b) THEN a ELSE b
              IN  /\ Truncates(left_calibration.line, larger)
                  /\ Truncates(left_calibration.floor, smaller)
        /\ left_calibration.line >= left_calibration.floor
        /\ FracEq(average(left_calibration),
                  Frac(left_calibration.line + left_calibration.floor, 2))
        /\ (left_calibration = SensorCalibration(195, 25)) =>
              FracEq(average(left_calibration), Frac(110, 1))

\* C20 witness: the cluster means 25.5 and 195.0 gave line 195 and floor 25, and
\* the average is 110.0
C20_Witness ==
    /\ pc = "calibrated"
    /\ left_sensor = <<25, 195, 26>>
    /\ left_calibration = SensorCalibration(195, 25)
    /\ FracEq(average(left_calibration), Frac(110, 1))

(***************************************************************************)
(* crates/speed and crates/directions on their own: a caller holds a       *)
(* VehicleDirection in `motors` and replaces the speed of either side by   *)
(* what a safe operation of Speed or MotorDirection returns for any f64,   *)
(* Speed or unsigned divisor.  `pc` names the operation that returned last.*)
(***************************************************************************)
\* the largest denominator of a speed the caller goes on with
MaxDenominator == 4

\* the f64 arguments
F64s == {Frac(-1, 2), Frac(0, 1), Frac(1, 4), Frac(3, 4), Frac(1, 1), NaN, Infinity}

\* 0.0 <= x <= 1.0
InRange(x) == ~IsNaN(x) /\ ~F64Less(x, Frac(0, 1)) /\ ~F64Less(Frac(1, 1), x)

\* the Speed arguments: the values Speed::new accepts
SpeedArgs == {f \in F64s : "ok" \in DOMAIN new(f)}

Sides == {"left", "right"}

DirectionInit ==
    /\ mailbox = <<>>
    /\ callers = [c \in CallerIds |-> Nothing]
    /\ reply = NoReply
    /\ pc = "direction"
    /\ left_calibration = None
    /\ on_line = FALSE
    /\ motors \in VehicleDirections
    /\ oscillate = None
    /\ left_sensor = <<>>
    /\ right_sensor = <<>>
    /\ edge_value = None
    /\ lift = LiftAtRest
    /\ state = 0
    /\ acceleration = None
    /\ error = Nothing
    /\ op_called = FALSE
    /\ read = None

\* the caller goes on with `direction` on `side`, returned by `op`
Returned(side, direction, op) ==
    /\ direction.speed.d <= MaxDenominator
    /\ motors' = [motors EXCEPT ![side] = direction]
    /\ pc' = op
    /\ op_called' = TRUE
    /\ Silent /\ UNCHANGED <<error, mailbox, left_calibration, on_line, oscillate,
                   left_sensor, right_sensor, edge_value, lift, state, acceleration>>

\* Speed::new(f): the side takes the speed if there is one; Err(f) leaves it
DirNew(side, f) ==
    IF "ok" \in DOMAIN new(f)
    THEN Returned(side, with_speed(motors[side], new(f).ok), "new")
    ELSE new(f).err = f /\ Returned(side, motors[side], "new_err")

DirNewClamp(side, f) == Returned(side, with_speed(motors[side], new_clamp(f)), "new_clamp")

DirSpeedAddF64(side, f) ==
    Returned(side, with_speed(motors[side], speed_saturating_add_f64(motors[side].speed, f)),
             "speed_saturating_add_f64")
DirSpeedSubF64(side, f) ==
    Returned(side, with_speed(motors[side], speed_saturating_sub_f64(motors[side].speed, f)),
             "speed_saturating_sub_f64")
DirSpeedMulF64(side, f) ==
    Returned(side, with_speed(motors[side], speed_saturating_mul_f64(motors[side].speed, f)),
             "speed_saturating_mul_f64")
DirSpeedDivF64(side, f) ==
    Returned(side, with_speed(motors[side], speed_saturating_div_f64(motors[side].speed, f)),
             "speed_saturating_div_f64")
DirSpeedAdd(side, rhs) ==
    Returned(side, with_speed(motors[side], speed_saturating_add(motors[side].speed, rhs)),
             "speed_saturating_add")
DirSpeedSub(side, rhs) ==
    Returned(side, with_speed(motors[side], speed_saturating_sub(motors[side].speed, rhs)),
             "speed_saturating_sub")
DirSpeedMul(side, rhs) ==
    Returned(side, with_speed(motors[side], Norm(SpeedMul(motors[side].speed, rhs))), "mul")
DirSpeedDiv(side, rhs) ==
    Returned(side, with_speed(motors[side], SpeedDiv(motors[side].speed, rhs)), "div")

DirSaturatingAdd(side, rhs) ==
    Returned(side, saturating_add(motors[side], rhs), "saturating_add")
DirWrappingSub(side, rhs) ==
    Returned(side, wrapping_sub(motors[side], rhs), "wrapping_sub")
DirNot(side) == Returned(side, not(motors[side]), "not")

DirectionNext ==
    \E side \in Sides :
        \/ \E f \in F64s :
              \/ DirNew(side, f)
              \/ DirNewClamp(side, f)
              \/ DirSpeedAddF64(side, f)
              \/ DirSpeedSubF64(side, f)
              \/ DirSpeedMulF64(side, f)
              \/ DirSpeedDivF64(side, f)
        \/ \E rhs \in SpeedArgs :
              \/ DirSpeedAdd(side, rhs)
              \/ DirSpeedSub(side, rhs)
              \/ DirSpeedMul(side, rhs)
              \/ DirSaturatingAdd(side, rhs)
              \/ DirWrappingSub(side, rhs)
        \/ \E rhs \in 1..2 : DirSpeedDiv(side, rhs)
        \/ DirNot(side)

DirectionSpec == DirectionInit /\ [][DirectionNext]_vars

\* the smaller of x and 1.0
AtMostOne(x) == IF F64Less(Frac(1, 1), x) THEN Frac(1, 1) ELSE x

Opposite(variant) == IF variant = "Forward" THEN "Backward" ELSE "Forward"

C22_SpeedInRange ==
    /\ InRange(motors.left.speed) /\ InRange(motors.right.speed)
    /\ \A f \in F64s :
          /\ InRange(new_clamp(f))
          /\ new(f) = IF InRange(f) THEN [ok |-> f] ELSE [err |-> f]

\* C22 witness: Speed 0.0 went through saturating_div_f64 and came back as NaN
C22_Witness ==
    /\ pc = "speed_saturating_div_f64"
    /\ IsNaN(motors.left.speed)

\* C23: is_stop() of the direction held is true exactly when the left speed and
\* the right speed are both 0.0, and does not change when either variant does.
C23_StopIsZeroSpeeds ==
    /\ is_stop(motors) <=> (motors.left.speed = Frac(0, 1) /\ motors.right.speed = Frac(0, 1))
    /\ \A l, r \in {"Forward", "Backward"} :
          is_stop([left |-> [motors.left EXCEPT !.variant = l],
                   right |-> [motors.right EXCEPT !.variant = r]]) <=> is_stop(motors)

\* C23 witness: after a wrapping_sub both wheels are at speed 0.0, one Backward and
\* one Forward, and the direction is a stop
C23_Witness ==
    /\ pc = "wrapping_sub"
    /\ motors.left = Backward(Frac(0, 1))
    /\ motors.right = Forward(Frac(0, 1))
    /\ is_stop(motors)

(***************************************************************************)
(* crates/line on its own: a caller makes a FollowLineState from any       *)
(* configuration and steps it with any reading, driving what the step      *)
(* returns, or resets it.  Here `state` is the FollowLineState, as in      *)
(* handle_commands, and `motors` the direction of the latest step.         *)
(***************************************************************************)
\* the largest |integral| the caller goes on with
MaxIntegral == 3

\* the readings: around the averages of the calibrations below
SensorValues == 0..4

\* FollowLineConfig
FollowLineConfigs ==
    [default_speed : {Frac(1, 2), Frac(1, 1)},
     proportional : {Frac(1, 2)},
     derivative : {Frac(1, 4)},
     integral : {None, Frac(1, 4)},
     calibration : {SensorCalibration(3, 0), SensorCalibration(4, 0)},
     reset_integral_on_target : BOOLEAN]

\* FollowLineState::new(config)
FollowLineState(config) ==
    [config |-> config, last_error |-> Frac(0, 1), derivative |-> Frac(0, 1),
     integral |-> Frac(0, 1)]

\* FollowLineState::reset
reset(st) ==
    [st EXCEPT !.last_error = Frac(0, 1), !.derivative = Frac(0, 1), !.integral = Frac(0, 1)]

\* variant: the integral is never cleared
integrateAlways(config, integral, err) == F64Add(integral, err)

\* the integral after a step with error `err`
integrate(config, integral, err) ==
    IF config.reset_integral_on_target /\ F64Less(F64Abs(err), Frac(1, 1))
    THEN Frac(0, 1)
    ELSE F64Add(integral, err)

\* variant: the base speed is not reduced
base_speedUnreduced(default_speed, control) == default_speed

\* the base speed of a step: default_speed less what default_speed + control
\* exceeds 1.0 by
base_speed(default_speed, control) ==
    LET max_speed == F64Add(default_speed, control)
        undershoot == F64Sub(max_speed, Frac(1, 1))
    IN  IF F64Less(Frac(0, 1), undershoot)
        THEN speed_saturating_sub_f64(default_speed, undershoot)
        ELSE default_speed

\* FollowLineState::step(sensor_value): the state left behind and the direction
follow_step(st, sensor_value) ==
    LET config == st.config
        err == F64Sub(Frac(sensor_value, 1), average(config.calibration))
        derivative == F64Sub(err, st.last_error)
        integral == integrate(config, st.integral, err)
        pd == F64Add(F64Mul(config.proportional, err),
                     F64Mul(config.derivative, derivative))
        control == IF config.integral = None THEN pd
                   ELSE F64Add(pd, F64Mul(config.integral, integral))
        speed == base_speed(config.default_speed, control)
    IN  [state |-> [st EXCEPT !.last_error = err, !.derivative = derivative,
                              !.integral = integral],
         direction |-> [left |-> wrapping_sub_f64(Forward(speed), control),
                        right |-> saturating_add_f64(Forward(speed), control)]]

FollowInit ==
    /\ mailbox = <<>>
    /\ callers = [c \in CallerIds |-> Nothing]
    /\ reply = NoReply
    /\ pc = "line_new"
    /\ left_calibration = None
    /\ on_line = FALSE
    /\ motors = "stop"
    /\ oscillate = None
    /\ left_sensor = <<>>
    /\ right_sensor = <<>>
    /\ edge_value = None
    /\ lift = LiftAtRest
    /\ state = 0
    /\ acceleration = None
    /\ error = Nothing
    /\ op_called = FALSE
    /\ read = None

LinePcs == {"line", "line_step", "line_reset"}

\* FollowLineState::new(config)
LineNew(config) ==
    /\ pc = "line_new"
    /\ state' = FollowLineState(config)
    /\ pc' = "line"
    /\ Silent /\ UNCHANGED <<error, mailbox, left_calibration, on_line, motors, oscillate,
                   left_sensor, right_sensor, edge_value, lift, acceleration, op_called>>

\* vehicle.drive(state.step(sensor_value))
LineStep(sensor_value) ==
    /\ pc \in LinePcs
    /\ LET r == follow_step(state, sensor_value)
       IN  /\ F64Abs(r.state.integral).n <= MaxIntegral * r.state.integral.d
           /\ state' = r.state
           /\ motors' = r.direction
    /\ pc' = "line_step"
    /\ op_called' = TRUE
    /\ Silent /\ UNCHANGED <<error, mailbox, left_calibration, on_line, oscillate,
                   left_sensor, right_sensor, edge_value, lift, acceleration>>

\* state.reset()
LineReset ==
    /\ pc \in LinePcs
    /\ state' = reset(state)
    /\ pc' = "line_reset"
    /\ Silent /\ UNCHANGED <<error, mailbox, left_calibration, on_line, motors, oscillate,
                   left_sensor, right_sensor, edge_value, lift, acceleration, op_called>>

FollowNext ==
    \/ \E config \in FollowLineConfigs : LineNew(config)
    \/ \E sensor_value \in SensorValues : LineStep(sensor_value)
    \/ LineReset

FollowSpec == FollowInit /\ [][FollowNext]_vars

\* C24: a step leaves the error it computed in last_error.  With
\* reset_integral_on_target set, a step whose error is within 1.0 of zero leaves
\* the integral at 0, and every other step leaves the integral it found plus the
\* error.
C24_IntegralReset ==
    [][(pc' = "line_step" /\ state.config.reset_integral_on_target) =>
        (state'.integral =
            IF F64Less(F64Abs(state'.last_error), Frac(1, 1))
            THEN Frac(0, 1)
            ELSE F64Add(state.integral, state'.last_error))]_vars

\* C24 witness: a step with error 1/2, after a step with error 3/2, has left the
\* integral at 0
C24_Witness ==
    /\ pc = "line_step"
    /\ state.config.reset_integral_on_target
    /\ state.last_error = Frac(1, 2)
    /\ state.derivative = Frac(-1, 1)
    /\ state.integral = Frac(0, 1)

\* the control value of the step that left `st`
ControlOf(st) ==
    LET pd == F64Add(F64Mul(st.config.proportional, st.last_error),
                     F64Mul(st.config.derivative, st.derivative))
    IN  IF st.config.integral = None THEN pd
        ELSE F64Add(pd, F64Mul(st.config.integral, st.integral))

\* default_speed less the positive part of default_speed + control - 1.0, at least 0
TargetOf(st) ==
    LET overflow == F64Sub(F64Add(st.config.default_speed, ControlOf(st)), Frac(1, 1))
        reduced == F64Sub(st.config.default_speed, overflow)
    IN  IF ~F64Less(Frac(0, 1), overflow) THEN st.config.default_speed
        ELSE IF F64Less(reduced, Frac(0, 1)) THEN Frac(0, 1) ELSE reduced

\* C25: the direction of a step is left = Forward(target).wrapping_sub(control) and
\* right = Forward(target).saturating_add(control); the right wheel is Forward, and
\* the left wheel is Backward exactly when control > target.
C25_StepDirection ==
    (pc = "line_step") =>
        LET control == ControlOf(state)
            target == TargetOf(state)
        IN  /\ motors.left = wrapping_sub_f64(Forward(target), control)
            /\ motors.right = saturating_add_f64(Forward(target), control)
            /\ motors.right.variant = "Forward"
            /\ (motors.left.variant = "Backward") <=> F64Less(target, control)

\* C25 witness: a step with control above the reduced target drove the left wheel
\* Backward and the right wheel Forward at full speed
C25_Witness ==
    /\ pc = "line_step"
    /\ F64Less(Frac(0, 1), F64Sub(F64Add(state.config.default_speed, ControlOf(state)), Frac(1, 1)))
    /\ motors.left.variant = "Backward"
    /\ motors.right = Forward(Frac(1, 1))

(***************************************************************************)
(* The actor again: the order of the demo script.                          *)
(***************************************************************************)
\* the number of the step of the script that `p` is in: calibrate 1, find edge 2,
\* follow to the stop line 3, lift up 4, turn on the line 5, find edge 6, follow
\* to the stop line 7, lift down 8
ScriptStep(p) ==
    CASE p = "demo_calibrate" -> 1
      [] p = "demo_find_edge" -> 2
      [] p = "demo_follow" -> 3
      [] p \in {"demo_lift_up", "demo_lift_up_wait", "demo_lift_up_clear"} -> 4
      [] p = "demo_turn" -> 5
      [] p = "demo_find_edge2" -> 6
      [] p = "demo_follow2" -> 7
      [] p \in {"demo_lift_down", "demo_lift_down_wait", "demo_lift_down_clear"} -> 8
      [] OTHER -> 0

\* C26: a Demo begins with calibrate; from a step the script goes on in that step,
\* or to the step that follows it in the order calibrate, find edge, follow, lift
\* up, turn, find edge, follow, lift down, a lift call only from its return; it
\* leaves the last step for the mailbox; or a call fails, the thread ends and no
\* later step is run.
C26_DemoOrder ==
    [][/\ (pc' = "demo_calibrate" /\ pc # "demo_calibrate") => DequeuesCmd("Demo")
       /\ (ScriptStep(pc') > 0 /\ pc' # "demo_calibrate" /\ pc' # pc) =>
             (/\ ScriptStep(pc) > 0
              /\ ScriptStep(pc') \in {ScriptStep(pc), ScriptStep(pc) + 1}
              /\ (ScriptStep(pc) = 4 /\ ScriptStep(pc') = 5) => pc = "demo_lift_up_clear")
       /\ (ScriptStep(pc) > 0 /\ ScriptStep(pc') = 0) =>
             \/ pc' = "dead"
             \/ pc' = "recv" /\ pc = "demo_lift_down_clear"
       /\ (pc = "dead") => (pc' = "dead")]_vars

\* C26 witness: the script has come to the return of its last call, lift down,
\* with the lift at its lower end
C26_Witness ==
    /\ pc = "demo_lift_down_clear"
    /\ lift.limit
    /\ motors = "stop"

(***************************************************************************)
(* The two calibration sweeps side by side: the actor's Calibrate handler  *)
(* and calibrate() of crates/demo, the first call of the demo script, here *)
(* one step per call it makes; the script is followed up to the return of  *)
(* calibrate().                                                            *)
(***************************************************************************)
SweepCommands == {"Calibrate", "Demo"}

DemoCalPcs == {"demo_cal_wait", "demo_cal_step", "demo_cal_log", "demo_cal_read_left",
               "demo_cal_read_right", "demo_cal_stop"}

\* SingleSensorCalibration::default() twice, Oscillate::new(..).start(vehicle)?
DemoCalStart ==
    /\ pc = "demo_calibrate"
    /\ op_called' = TRUE
    /\ \E ok \in BOOLEAN :
         IF ok
         THEN /\ motors' = SpinCommand("Left")
              /\ oscillate' = ActiveOscillation(CalibrateDwell, "Left")
              /\ left_sensor' = <<>>
              /\ right_sensor' = <<>>
              /\ pc' = "demo_cal_wait"
              /\ Silent /\ UNCHANGED <<error, mailbox, left_calibration, on_line,
                             edge_value, lift, state, acceleration>>
         ELSE /\ motors' = "unknown"
              /\ Die("vehicle")

\* oscillate.wait_until_next(): the sleep returns when the dwell is over
DemoCalWait ==
    /\ pc = "demo_cal_wait"
    /\ should_step(oscillate)
    /\ pc' = "demo_cal_step"
    /\ Silent /\ UNCHANGED <<error, mailbox, left_calibration, on_line, motors, oscillate,
                   left_sensor, right_sensor, edge_value, lift, state, acceleration, op_called>>

\* oscillate.step(vehicle)?
DemoCalStep ==
    /\ pc = "demo_cal_step"
    /\ IF step_due(oscillate)
       THEN /\ op_called' = TRUE
            /\ \E ok \in BOOLEAN :
                 IF ok
                 THEN /\ oscillate' = switched(oscillate)
                      /\ motors' = SpinCommand(Not(oscillate.direction))
                      /\ pc' = "demo_cal_log"
                      /\ Silent /\ UNCHANGED <<error, mailbox, left_calibration, on_line,
                                     left_sensor, right_sensor, edge_value, lift, state, acceleration>>
                 ELSE /\ motors' = "unknown"
                      /\ Die("vehicle")
       ELSE /\ pc' = "demo_cal_log"
            /\ Silent /\ UNCHANGED <<error, mailbox, left_calibration, on_line, motors,
                           oscillate, left_sensor, right_sensor, edge_value, lift, state,
                           acceleration, op_called>>

\* while !oscillate.should_step()
DemoCalLog ==
    /\ pc = "demo_cal_log"
    /\ should_step(oscillate) \/ Len(left_sensor) < MaxLog
    /\ pc' = IF should_step(oscillate) THEN "demo_cal_stop" ELSE "demo_cal_read_left"
    /\ Silent /\ UNCHANGED <<error, mailbox, left_calibration, on_line, motors, oscillate,
                   left_sensor, right_sensor, edge_value, lift, state, acceleration, op_called>>

\* let left_value = sensors.read(Sensors::Left)?
DemoCalReadLeft ==
    /\ pc = "demo_cal_read_left"
    /\ op_called' = TRUE
    /\ \E ok \in BOOLEAN :
         IF ok
         THEN /\ \E value \in Readings : left_sensor' = Append(left_sensor, value)
              /\ pc' = "demo_cal_read_right"
              /\ Reads("Left") /\ UNCHANGED <<error, mailbox, left_calibration, on_line,
                                    oscillate, right_sensor, edge_value, lift, state, acceleration>>
         ELSE Die("sensor")
    /\ UNCHANGED motors

\* let right_value = sensors.read(Sensors::Left)?, and the two log calls
DemoCalReadRight ==
    /\ pc = "demo_cal_read_right"
    /\ op_called' = TRUE
    /\ \E ok \in BOOLEAN :
         IF ok
         THEN /\ \E value \in Readings : right_sensor' = Append(right_sensor, value)
              /\ pc' = "demo_cal_log"
              /\ Reads("Left") /\ UNCHANGED <<error, mailbox, left_calibration, on_line,
                                    oscillate, left_sensor, edge_value, lift, state, acceleration>>
         ELSE Die("sensor")
    /\ UNCHANGED motors

\* vehicle.stop()?, both calibrate() calls, and the return to demo(), which keeps
\* the two calibrations for itself
DemoCalStop ==
    /\ pc = "demo_cal_stop"
    /\ op_called' = TRUE
    /\ \E ok \in BOOLEAN :
         IF ok
         THEN /\ motors' = "stop"
              /\ pc' = "demo_find_edge"
              /\ DropLocals
              /\ Silent /\ UNCHANGED <<error, mailbox, left_calibration, on_line>>
         ELSE /\ motors' = "unknown"
              /\ Die("vehicle")

SweepNext ==
    \/ \E c \in CallerIds, cmd \in SweepCommands : Request(c, cmd)
    \/ \E c \in CallerIds : ReplyLost(c)
    \/ Tick
    \/ RecvCalibrate \/ RecvDemo
    \/ CalStart \/ CalWait \/ CalWaitPoll \/ CalStep \/ CalLog \/ CalLogPoll
    \/ CalReadLeft \/ CalReadRight \/ CalStop
    \/ DemoCalStart \/ DemoCalWait \/ DemoCalStep \/ DemoCalLog
    \/ DemoCalReadLeft \/ DemoCalReadRight \/ DemoCalStop

SweepSpec == Init /\ [][SweepNext]_vars

\* C27: a step of either sweep that adds a reading to the left log has read the
\* left sensor, and a step that adds a reading to the right log has read the
\* right sensor.
C27_LogsMatchSensors ==
    [][/\ (Len(left_sensor') > Len(left_sensor)) => (read' = [channel |-> "Left"])
       /\ (Len(right_sensor') > Len(right_sensor)) => (read' = [channel |-> "Right"])]_vars

\* C27 witness: in the sweep of the demo script the right log has just taken a
\* reading of the left sensor
C27_Witness ==
    /\ pc = "demo_cal_log"
    /\ Len(right_sensor) > 0
    /\ read = [channel |-> "Left"]

(***************************************************************************)
(* crates/calibration again: the initial centroids and the clusters of a   *)
(* log that holds readings of both kinds, near the floor (25, 26) and near *)
(* the line (195).                                                         *)
(***************************************************************************)
\* the readings near the line
OverLine(value) == value >= 195

\* the log holds a reading near the floor and a reading near the line
Bimodal(data) ==
    /\ \E i \in 1..Len(data) : OverLine(data[i])
    /\ \E i \in 1..Len(data) : ~OverLine(data[i])

\* C28: for a log with at least two distinct values, whatever the random source
\* gives, the two initial centroids are two distinct values.
C28_DistinctCentroids ==
    (Cardinality(Distinct(left_sensor)) >= 2) =>
        \A centroids \in choose_multiple(left_sensor, KMeansK) :
            ~FracEq(centroids[1], centroids[2])

\* C28 witness: a log with a repeated reading was calibrated, and both initial
\* centroids can be that reading
C28_Witness ==
    /\ pc = "calibrated"
    /\ left_sensor = <<25, 25, 195>>
    /\ <<Frac(25, 1), Frac(25, 1)>> \in choose_multiple(left_sensor, KMeansK)

\* C29: for a log with readings of both kinds and every choice of the two initial
\* centroids, kmeans puts two readings in the same cluster exactly when they are of
\* the same kind.
C29_ModesSeparated ==
    Bimodal(left_sensor) =>
        \A centroids \in choose_multiple(left_sensor, KMeansK) :
            \A assignments \in {kmeans(left_sensor, centroids, KMeansIters)} :
                \A i, j \in 1..Len(left_sensor) :
                    (assignments[i] = assignments[j]) <=>
                        (OverLine(left_sensor[i]) <=> OverLine(left_sensor[j]))

\* C29 witness: a log of both kinds with a repeated reading was calibrated; started
\* from two equal centroids, kmeans has put the reading near the line in a cluster
\* of its own, and the calibration is line 195, floor 25
C29_Witness ==
    /\ pc = "calibrated"
    /\ left_sensor = <<25, 25, 195, 26>>
    /\ kmeans(left_sensor, <<Frac(25, 1), Frac(25, 1)>>, KMeansIters) = <<1, 1, 0, 1>>
    /\ left_calibration = SensorCalibration(195, 25)

(***************************************************************************)
(* The actor again: on_line and the cached calibration.                    *)
(***************************************************************************)
\* C30: whenever on_line is true a calibration is cached, and no FollowLine is
\* answered NoCalibration.
C30_OnLineHasCalibration ==
    /\ on_line => left_calibration # None
    /\ ~(reply.cmd = "FollowLine" /\ reply.value = "NoCalibration")

\* C30 witness: on the line, with a calibration cached, a FollowLine was answered
\* Success and the follow loop is entered
C30_Witness ==
    /\ on_line
    /\ left_calibration # None
    /\ reply.cmd = "FollowLine" /\ reply.value = "Success"
    /\ pc = "follow_poll"

(***************************************************************************)
(* The actor again: where on_line and the cached calibration change.       *)
(***************************************************************************)
\* C31: while the thread lives, on_line changes in three steps only: it becomes
\* false when a Calibrate is taken at top level and when the demo script has
\* returned, and true when an edge search ends by finding the edge; these steps
\* always leave it so.  A FollowLine cancelled by Stop leaves the actor where the
\* next FollowLine is accepted.
C31_OnLineChanges ==
    [][(pc' # "dead") =>
        (/\ (pc = "recv" /\ DequeuesCmd("Calibrate")) => ~on_line'
         /\ (pc = "demo_lift_down_clear" /\ pc' = "recv") => ~on_line'
         /\ (pc = "edge_stop" /\ pc' = "recv") => on_line'
         /\ (on_line' # on_line) =>
               \/ pc = "recv" /\ DequeuesCmd("Calibrate")
               \/ pc = "demo_lift_down_clear" /\ pc' = "recv"
               \/ pc = "edge_stop" /\ pc' = "recv"
         /\ (Running = "FollowLine" /\ DequeuesCmd("Stop")) =>
               (pc' = "recv" /\ FollowLineArbitration(on_line', left_calibration') = "Success"))]_vars

\* C31 witness: a FollowLine was cancelled by Stop and the actor is idle, still on
\* the line with its calibration
C31_Witness ==
    /\ reply.cmd = "Stop" /\ reply.value = "FollowLine"
    /\ pc = "recv"
    /\ on_line /\ left_calibration # None

\* C32: while the thread lives, the cached calibration changes only in the step
\* that ends a Calibrate naturally (vehicle.stop() after the second dwell, then
\* calibrate()); a Stop taken inside Calibrate and every step of a Demo leave it
\* as it was, and a cached Some stays Some.
C32_CacheChanges ==
    [][(pc' # "dead") =>
        (/\ (left_calibration' # left_calibration) => (pc = "cal_stop" /\ pc' = "recv")
         /\ (pc \in CalibratePcs /\ DequeuesCmd("Stop")) =>
               (pc' = "recv" /\ left_calibration' = left_calibration)
         /\ (Running = "Demo" \/ DequeuesCmd("Demo")) => left_calibration' = left_calibration
         /\ (left_calibration # None) => (left_calibration' # None))]_vars

\* C32 witness: a Calibrate was cancelled by Stop while a calibration was cached,
\* and the cache is still there
C32_Witness ==
    /\ reply.cmd = "Stop" /\ reply.value = "Calibrate"
    /\ pc = "recv"
    /\ left_calibration # None

\* C33: whenever the thread is blocked in the top-level recv, the last command
\* given to the drive motors is a stop (the motors start stopped): every way back
\* to the top level, natural end or Stop, goes through vehicle.stop().
C33_IdleIsStopped == (pc = "recv") => (motors = "stop")

\* C33 witness: an edge search has ended by finding the edge and the thread is
\* idle again with the motors stopped
C33_Witness == pc = "recv" /\ op_called /\ on_line /\ motors = "stop" /\ reply = NoReply

(***************************************************************************)
(* Two callers of FollowLine: the actor is idle, on the line and           *)
(* calibrated; the callers send FollowLine at any time and nobody sends    *)
(* Stop.                                                                   *)
(***************************************************************************)
RaceInit ==
    /\ mailbox = <<>>
    /\ callers = [c \in CallerIds |-> Nothing]
    /\ reply = NoReply
    /\ pc = "recv"
    /\ \E value \in Readings : left_calibration \in Calibrations(<<value>>)
    /\ on_line = TRUE
    /\ motors = "stop"
    /\ oscillate = None
    /\ left_sensor = <<>>
    /\ right_sensor = <<>>
    /\ edge_value = None
    /\ lift = LiftAtRest
    /\ state = 0
    /\ acceleration = None
    /\ error = Nothing
    /\ op_called = FALSE
    /\ read = None

RaceNext ==
    \/ \E c \in CallerIds : Request(c, "FollowLine")
    \/ \E c \in CallerIds : ReplyLost(c)
    \/ RecvFollowLine
    \/ FollowPoll
    \/ FollowRead
    \/ FollowDrive

RaceSpec == RaceInit /\ [][RaceNext]_vars

\* C34: the thread is in one operation at a time: of the FollowLine requests of
\* the callers, the one taken at the top level is answered Success and starts
\* the follow loop, every one taken afterwards is answered AlreadyFollowing by
\* the poll of that loop, and without a Stop the thread does not come back to
\* the top level, so Success is given once.
C34_OneFollower ==
    [][/\ DequeuesCmd("FollowLine") =>
            /\ Running' = "FollowLine"
            /\ IF pc = "recv" THEN Answers("Success") ELSE Answers("AlreadyFollowing")
       /\ (pc # "recv") => (pc' # "recv")]_vars

\* C34 witness: both callers have had their answer, the later one the denial,
\* and the follow loop goes on
C34_Witness ==
    /\ reply.cmd = "FollowLine" /\ reply.value = "AlreadyFollowing"
    /\ \A c \in CallerIds : callers[c] = Nothing
    /\ mailbox = <<>>
    /\ pc = "follow_read"

(***************************************************************************)
(* The actor again: the samples of the sweep.                              *)
(***************************************************************************)
\* C35: inside Calibrate a sensor is read only after the oscillation has switched
\* once (its dwell is the doubled one and it spins right) and after a test that
\* found the second dwell not yet over; up to the switching step both logs are
\* empty, a log grows only by the reading of such a step, and the calibration
\* cached at the end is computed from the left log as it then stands.
C35_SamplesAfterSwitch ==
    [][/\ (pc \in CalibratePcs /\ pc' # pc /\ read' # None) =>
            /\ oscillate.duration = CalibrateDwell * Multiplier
            /\ oscillate.direction = Not("Left")
            /\ ~should_step(oscillate)
            /\ pc \in {"cal_read_left", "cal_read_right"}
       /\ (pc \in {"cal_start", "cal_wait", "cal_wait_poll", "cal_step"}) =>
            (left_sensor = <<>> /\ right_sensor = <<>>)
       /\ (pc \in CalibratePcs /\ pc' \in CalibratePcs /\ left_sensor' # left_sensor) =>
            (pc = "cal_read_left" /\ read' # None /\ SubSeq(left_sensor', 1, Len(left_sensor)) = left_sensor)
       /\ (pc \in CalibratePcs /\ pc' \in CalibratePcs /\ right_sensor' # right_sensor) =>
            (pc = "cal_read_right" /\ read' # None /\ SubSeq(right_sensor', 1, Len(right_sensor)) = right_sensor)
       /\ (pc = "cal_stop" /\ pc' = "recv") => (left_calibration' \in Calibrations(left_sensor))]_vars

\* C35 witness: the sweep has switched once and the left sensor has just been
\* read into the log
C35_Witness ==
    /\ pc = "cal_read_right"
    /\ read # None
    /\ oscillate.duration = CalibrateDwell * Multiplier
    /\ Len(left_sensor) = 1 /\ right_sensor = <<>>

(***************************************************************************)
(* The actor again: Health.                                                *)
(***************************************************************************)
\* C36: a Health taken from the mailbox, at the top level or at the poll of
\* Calibrate, FindEdge or FollowLine, is answered with () in that step, and the
\* step leaves the running operation running and calibration, on_line and the
\* drive motors as they were; while the demo script runs no message is taken from
\* the mailbox and no reply is sent.
C36_HealthAnswered ==
    [][/\ DequeuesCmd("Health") =>
            /\ Answers("Unit")
            /\ Running' = Running
            /\ UNCHANGED <<left_calibration, on_line, motors, oscillate, left_sensor, right_sensor>>
       /\ (Running = "Demo" /\ pc' # "dead") =>
            /\ Len(mailbox') >= Len(mailbox)
            /\ SubSeq(mailbox', 1, Len(mailbox)) = mailbox
            /\ reply' = NoReply]_vars

\* C36 witness: Health has just been answered while the edge search goes on
C36_Witness ==
    /\ reply.cmd = "Health" /\ reply.value = "Unit"
    /\ Running = "FindEdge"
    /\ left_calibration # None

(***************************************************************************)
(* crates/oscillate again, with the spin directions of crates/directions:  *)
(* a vehicle that records the spin commands it is given, an oscillation    *)
(* of any dwell, side and speed, and step() called at any time.            *)
(* Here edge_value is the configured Oscillate, state the number of        *)
(* switching steps so far and left_sensor the spin commands the vehicle    *)
(* has accepted.                                                           *)
(***************************************************************************)
\* the most switching steps of one oscillation
MaxSwitches == 3

\* SpinDirection::Left(speed), SpinDirection::Right(speed)
Left(speed) == [variant |-> "Left", speed |-> speed]
Right(speed) == [variant |-> "Right", speed |-> speed]
SpinDirections == {Left(speed) : speed \in Speeds} \cup {Right(speed) : speed \in Speeds}

\* variant: the opposite spin at full speed
spin_notFullSpeed(direction) ==
    IF direction.variant = "Left" THEN Right(Frac(1, 1)) ELSE Left(Frac(1, 1))

\* impl Not for SpinDirection
spin_not(direction) ==
    IF direction.variant = "Left" THEN Right(direction.speed) ELSE Left(direction.speed)

\* Oscillate::new
Oscillate(duration, direction, multiplier) ==
    [duration |-> duration, direction |-> direction, multiplier |-> multiplier]

SwingInit ==
    /\ mailbox = <<>>
    /\ callers = [c \in CallerIds |-> Nothing]
    /\ reply = NoReply
    /\ pc = "osc_new"
    /\ left_calibration = None
    /\ on_line = FALSE
    /\ motors = "stop"
    /\ oscillate = None
    /\ left_sensor = <<>>
    /\ right_sensor = <<>>
    /\ edge_value = None
    /\ lift = LiftAtRest
    /\ state = 0
    /\ acceleration = None
    /\ error = Nothing
    /\ op_called = FALSE
    /\ read = None

\* Oscillate::start: driveable.spin(self.direction)?, then since_last = now
SwingStart(config) ==
    /\ pc = "osc_new"
    /\ op_called' = TRUE
    /\ edge_value' = config
    /\ \E ok \in BOOLEAN :
         IF ok
         THEN /\ motors' = config.direction
              /\ left_sensor' = <<config.direction>>
              /\ oscillate' = ActiveOscillation(config.duration, config.direction)
              /\ pc' = "osc_active"
              /\ UNCHANGED error
         ELSE /\ motors' = "unknown"
              /\ pc' = "osc_failed"
              /\ error' = "vehicle"
              /\ UNCHANGED <<left_sensor, oscillate>>
    /\ Silent
    /\ UNCHANGED <<mailbox, left_calibration, on_line, right_sensor, lift, state, acceleration>>

\* ActiveOscillation::step: the direction, the dwell and the timer are set
\* before driveable.spin(self.config.direction)? is called
SwingStep ==
    /\ pc = "osc_active"
    /\ IF oscillate.elapsed > oscillate.duration
       THEN /\ state < MaxSwitches
            /\ oscillate' = [duration |-> oscillate.duration * edge_value.multiplier,
                             direction |-> spin_not(oscillate.direction),
                             elapsed |-> 0]
            /\ \E ok \in BOOLEAN :
                 IF ok
                 THEN /\ motors' = oscillate'.direction
                      /\ left_sensor' = Append(left_sensor, oscillate'.direction)
                      /\ state' = state + 1
                      /\ UNCHANGED <<pc, error>>
                 ELSE /\ motors' = "unknown"
                      /\ pc' = "osc_failed"
                      /\ error' = "vehicle"
                      /\ UNCHANGED <<left_sensor, state>>
       ELSE UNCHANGED <<pc, error, motors, oscillate, left_sensor, state>>
    /\ Silent
    /\ UNCHANGED <<mailbox, left_calibration, on_line, right_sensor, edge_value, lift,
                   acceleration, op_called>>

SwingNext ==
    \/ \E duration \in 0..2, direction \in SpinDirections :
          SwingStart(Oscillate(duration, direction, Multiplier))
    \/ Tick
    \/ SwingStep

SwingSpec == SwingInit /\ [][SwingNext]_vars

RECURSIVE Pow(_, _)
Pow(base, n) == IF n = 0 THEN 1 ELSE base * Pow(base, n - 1)

RECURSIVE Negated(_, _)
\* `direction` negated n times
Negated(direction, n) ==
    IF n = 0 THEN direction
    ELSE IF Negated(direction, n - 1).variant = "Left"
         THEN Right(Negated(direction, n - 1).speed)
         ELSE Left(Negated(direction, n - 1).speed)

\* the oscillation started from edge_value has made `state` switching steps
Swung ==
    /\ oscillate.direction = Negated(edge_value.direction, state)
    /\ oscillate.direction.speed = edge_value.direction.speed
    /\ oscillate.duration = edge_value.duration * Pow(edge_value.multiplier, state)
    /\ Len(left_sensor) = state + 1
    /\ left_sensor[1] = edge_value.direction
    /\ \A i \in 1..state :
          /\ left_sensor[i + 1].variant # left_sensor[i].variant
          /\ left_sensor[i + 1].variant \in {"Left", "Right"}
          /\ left_sensor[i + 1].speed = left_sensor[i].speed

\* C37: start() gives the vehicle one spin in the configured direction and starts
\* the timer at zero; whenever the oscillation is active after n switching steps,
\* its direction is the configured one negated n times at the configured speed,
\* its dwell is the configured dwell times multiplier^n, and the n+1 spins the
\* vehicle was given alternate between Left and Right.
C37_AlternatingSpins ==
    [][/\ (pc = "osc_new" /\ pc' = "osc_active") =>
            /\ oscillate'.elapsed = 0
            /\ state' = 0
            /\ left_sensor' = <<edge_value'.direction>>
            /\ motors' = edge_value'.direction
       /\ (pc' = "osc_active") => Swung']_vars

\* C37 witness: an oscillation started to the left at half speed with dwell 1
\* has switched three times
C37_Witness ==
    /\ pc = "osc_active"
    /\ edge_value = Oscillate(1, Left(Frac(1, 2)), Multiplier)
    /\ state = 3
    /\ oscillate.duration = 8
    /\ oscillate.direction = Right(Frac(1, 2))
    /\ Len(left_sensor) = 4

(***************************************************************************)
(* crates/vehicle: Vehicle<LD, RD> over two motors that record the calls   *)
(* they get and accept or refuse each of them.  Here state is              *)
(* Vehicle::state, motors the calls the left and the right motor have had, *)
(* and reply the latest call of the vehicle with its result.               *)
(***************************************************************************)
\* the most calls made on one vehicle
MaxCalls == 3

\* impl From<SpinDirection> for VehicleDirection
FromSpinDirection(value) ==
    IF value.variant = "Left"
    THEN [left |-> Backward(value.speed), right |-> Forward(value.speed)]
    ELSE [left |-> Forward(value.speed), right |-> Backward(value.speed)]

\* a call a motor has had: drive(direction) or stop(), and whether it returned Ok
MotorCall(direction, ok) == [direction |-> direction, ok |-> ok]
MotorStop == [variant |-> "Stop"]

Ok(value) == [tag |-> "Ok", value |-> value]
Err(value) == [tag |-> "Err", value |-> value]

\* variant: the direction is recorded before the motors are commanded
driveRecordsFirst(vehicle, direction, left_ok, right_ok) ==
    LET left == Append(vehicle.left, MotorCall(direction.left, left_ok))
        right == Append(vehicle.right, MotorCall(direction.right, right_ok))
    IN  IF ~left_ok
        THEN [vehicle |-> [left |-> left, right |-> vehicle.right, state |-> direction],
              result |-> Err("Left")]
        ELSE IF ~right_ok
        THEN [vehicle |-> [left |-> left, right |-> right, state |-> direction],
              result |-> Err("Right")]
        ELSE [vehicle |-> [left |-> left, right |-> right, state |-> direction],
              result |-> Ok(vehicle.state)]

\* Drive::drive for Vehicle: self.left.drive(..)?, self.right.drive(..)?,
\* Ok(self.state.replace(direction))
drive(vehicle, direction, left_ok, right_ok) ==
    LET left == Append(vehicle.left, MotorCall(direction.left, left_ok))
        right == Append(vehicle.right, MotorCall(direction.right, right_ok))
    IN  IF ~left_ok
        THEN [vehicle |-> [vehicle EXCEPT !.left = left], result |-> Err("Left")]
        ELSE IF ~right_ok
        THEN [vehicle |-> [vehicle EXCEPT !.left = left, !.right = right],
              result |-> Err("Right")]
        ELSE [vehicle |-> [left |-> left, right |-> right, state |-> direction],
              result |-> Ok(vehicle.state)]

\* Drive::stop for Vehicle: self.left.stop()?, self.right.stop()?,
\* Ok(self.state.take())
stop(vehicle, left_ok, right_ok) ==
    LET left == Append(vehicle.left, MotorCall(MotorStop, left_ok))
        right == Append(vehicle.right, MotorCall(MotorStop, right_ok))
    IN  IF ~left_ok
        THEN [vehicle |-> [vehicle EXCEPT !.left = left], result |-> Err("Left")]
        ELSE IF ~right_ok
        THEN [vehicle |-> [vehicle EXCEPT !.left = left, !.right = right],
              result |-> Err("Right")]
        ELSE [vehicle |-> [left |-> left, right |-> right, state |-> None],
              result |-> Ok(vehicle.state)]

\* Spin::spin for Vehicle
spin(vehicle, direction, left_ok, right_ok) ==
    drive(vehicle, FromSpinDirection(direction), left_ok, right_ok)

\* the vehicle as the variables hold it
TheVehicle == [left |-> motors.left, right |-> motors.right, state |-> state]

\* Vehicle::new(left, right)
VehicleInit ==
    /\ mailbox = <<>>
    /\ callers = [c \in CallerIds |-> Nothing]
    /\ reply = NoReply
    /\ pc = "vehicle"
    /\ left_calibration = None
    /\ on_line = FALSE
    /\ motors = [left |-> <<>>, right |-> <<>>]
    /\ oscillate = None
    /\ left_sensor = <<>>
    /\ right_sensor = <<>>
    /\ edge_value = None
    /\ lift = LiftAtRest
    /\ state = None
    /\ acceleration = None
    /\ error = Nothing
    /\ op_called = FALSE
    /\ read = None

\* a call on the vehicle has returned `r`
Called(call, direction, r) ==
    /\ pc = "vehicle"
    /\ Len(motors.left) < MaxCalls
    /\ motors' = [left |-> r.vehicle.left, right |-> r.vehicle.right]
    /\ state' = r.vehicle.state
    /\ reply' = [call |-> call, direction |-> direction, result |-> r.result]
    /\ op_called' = TRUE
    /\ UNCHANGED <<mailbox, callers, pc, left_calibration, on_line, oscillate, left_sensor,
                   right_sensor, edge_value, lift, acceleration, error, read>>

VehicleDrive(direction) ==
    \E left_ok, right_ok \in BOOLEAN :
        Called("drive", direction, drive(TheVehicle, direction, left_ok, right_ok))

VehicleSpin(direction) ==
    \E left_ok, right_ok \in BOOLEAN :
        Called("spin", FromSpinDirection(direction), spin(TheVehicle, direction, left_ok, right_ok))

VehicleStop ==
    \E left_ok, right_ok \in BOOLEAN :
        Called("stop", None, stop(TheVehicle, left_ok, right_ok))

\* the directions the vehicle is driven in
DriveArgs == {[left |-> Forward(speed), right |-> Forward(speed)] : speed \in {Frac(1, 2), Frac(1, 1)}}
SpinArgs == {Left(Frac(1, 2)), Right(Frac(1, 2))}

VehicleNext ==
    \/ \E direction \in DriveArgs : VehicleDrive(direction)
    \/ \E direction \in SpinArgs : VehicleSpin(direction)
    \/ VehicleStop

VehicleSpec == VehicleInit /\ [][VehicleNext]_vars

\* the motor on `side` has had one more call, for `command`, and has accepted it
Accepts(side, command) ==
    motors'[side] = Append(motors[side], MotorCall(command, TRUE))

\* C38: a call of drive, spin or stop that returns Ok returns the direction
\* recorded before it, has been accepted by the left and then the right motor,
\* and records the new direction (drive, spin) or None (stop); a call that
\* returns Err leaves the recorded direction as it was, and after a refusal of
\* the left motor the right motor has had no call; a stop that follows a stop
\* returns None.
C38_VehicleRecords ==
    [][LET call == reply'.call
           result == reply'.result
       IN  /\ (result.tag = "Ok" /\ call \in {"drive", "spin"}) =>
                 /\ result.value = state
                 /\ state' = reply'.direction
                 /\ Accepts("left", reply'.direction.left)
                 /\ Accepts("right", reply'.direction.right)
           /\ (result.tag = "Ok" /\ call = "stop") =>
                 /\ result.value = state
                 /\ state' = None
                 /\ Accepts("left", MotorStop)
                 /\ Accepts("right", MotorStop)
           /\ (result.tag = "Err") =>
                 /\ state' = state
                 /\ Len(motors'.left) = Len(motors.left) + 1
                 /\ result.value = "Left" =>
                       (~motors'.left[Len(motors'.left)].ok /\ motors'.right = motors.right)
                 /\ result.value = "Right" =>
                       /\ motors'.left[Len(motors'.left)].ok
                       /\ Len(motors'.right) = Len(motors.right) + 1
                       /\ ~motors'.right[Len(motors'.right)].ok
           /\ (result.tag = "Ok" /\ call = "stop" /\ reply # NoReply
                 /\ reply.call = "stop" /\ reply.result.tag = "Ok") =>
                 result.value = None]_vars

\* C38 witness: a drive was refused by the left motor after a spin had been
\* recorded: the recorded direction is still that of the spin and the right
\* motor has had one call only
C38_Witness ==
    /\ pc = "vehicle" /\ op_called
    /\ reply.call = "drive" /\ reply.result.tag = "Err" /\ reply.result.value = "Left"
    /\ state = FromSpinDirection(Left(Frac(1, 2)))
    /\ Len(motors.left) = 2 /\ Len(motors.right) = 1

(***************************************************************************)
(* crates/acceleration again: the multiplier of a ramp that has begun.     *)
(***************************************************************************)
\* Speed::new_clamp(since_last / duration) of a ramp that has begun
RampMultiplier(acc) == new_clamp(Frac(acc.last.elapsed, acc.duration))

=============================================================================
